---- MODULE Spec2Model ----
(***************************************************************************)
(* The JSP formatter of src/src/formatter.ts (JspFormattingProvider).      *)
(* A text is a sequence of one-character strings; every regular expression *)
(* of the source is an operator on such sequences that matches what the    *)
(* expression matches.                                                     *)
(***************************************************************************)
EXTENDS Integers, Sequences, FiniteSets, TLC

----------------------------------------------------------------------------
(* Character classes of the regular expressions. *)

\* \s, and the characters String.prototype.trim() strips
Whitespace == {" ", "\t", "\n", "\r", "\f"}

Lower == {"a","b","c","d","e","f","g","h","i","j","k","l","m",
          "n","o","p","q","r","s","t","u","v","w","x","y","z"}

Upper == {"A","B","C","D","E","F","G","H","I","J","K","L","M",
          "N","O","P","Q","R","S","T","U","V","W","X","Y","Z"}

Digit == {"0","1","2","3","4","5","6","7","8","9"}

\* \w
WordChar == Lower \cup Upper \cup Digit \cup {"_"}

\* [a-zA-Z:]
TagNameStart == Lower \cup Upper \cup {":"}

\* . (no s flag): any character but a line terminator
LineTerminator == {"\n", "\r"}

----------------------------------------------------------------------------
(* String primitives of the JavaScript runtime. *)

Max(a, b) == IF a >= b THEN a ELSE b

MinOf(S) == CHOOSE x \in S : \A y \in S : x <= y

\* s.startsWith(p, i-1), positions counted from 1
StartsWithAt(s, i, p) ==
    /\ i >= 1
    /\ i + Len(p) - 1 <= Len(s)
    /\ \A k \in 1..Len(p) : s[i + k - 1] = p[k]

\* s.indexOf(p, i-1) + 1: the first position >= i where p occurs, 0 if none
IndexOfFrom(s, p, i) ==
    LET at == {j \in i..(Len(s) - Len(p) + 1) : StartsWithAt(s, j, p)}
    IN  IF at = {} THEN 0 ELSE MinOf(at)

Includes(s, p) == IndexOfFrom(s, p, 1) # 0

\* the number of positions holding character c
CountChar(s, c) == Cardinality({i \in 1..Len(s) : s[i] = c})

\* s.trim()
Trim(s) ==
    LET keep == {i \in 1..Len(s) : s[i] \notin Whitespace}
    IN  IF keep = {} THEN <<>>
        ELSE SubSeq(s, MinOf(keep), CHOOSE x \in keep : \A y \in keep : y <= x)

\* s.repeat(n)
RECURSIVE Repeat(_, _)
Repeat(s, n) == IF n <= 0 THEN <<>> ELSE s \o Repeat(s, n - 1)

\* s.split('\n'): always at least one line
RECURSIVE SplitFrom(_, _, _)
SplitFrom(s, i, cur) ==
    LET at == {j \in i..Len(s) : s[j] = "\n"}
    IN  IF at = {} THEN <<cur \o SubSeq(s, i, Len(s))>>
        ELSE <<cur \o SubSeq(s, i, MinOf(at) - 1)>>
             \o SplitFrom(s, MinOf(at) + 1, <<>>)

SplitLines(s) == SplitFrom(s, 1, <<>>)

\* lines.join('\n')
RECURSIVE JoinLines(_)
JoinLines(ls) ==
    IF Len(ls) = 0 THEN <<>>
    ELSE IF Len(ls) = 1 THEN ls[1]
    ELSE ls[1] \o <<"\n">> \o JoinLines(Tail(ls))

\* the i flag: case folding of the ASCII letters
ToLowerChar(c) ==
    CASE c = "A" -> "a" [] c = "B" -> "b" [] c = "C" -> "c" [] c = "D" -> "d"
      [] c = "E" -> "e" [] c = "F" -> "f" [] c = "G" -> "g" [] c = "H" -> "h"
      [] c = "I" -> "i" [] c = "J" -> "j" [] c = "K" -> "k" [] c = "L" -> "l"
      [] c = "M" -> "m" [] c = "N" -> "n" [] c = "O" -> "o" [] c = "P" -> "p"
      [] c = "Q" -> "q" [] c = "R" -> "r" [] c = "S" -> "s" [] c = "T" -> "t"
      [] c = "U" -> "u" [] c = "V" -> "v" [] c = "W" -> "w" [] c = "X" -> "x"
      [] c = "Y" -> "y" [] c = "Z" -> "z" [] OTHER -> c

ToLower(s) == [i \in 1..Len(s) |-> ToLowerChar(s[i])]

\* the decimal digits of a template literal's ${counter}
DigitChar(d) ==
    CASE d = 0 -> "0" [] d = 1 -> "1" [] d = 2 -> "2" [] d = 3 -> "3"
      [] d = 4 -> "4" [] d = 5 -> "5" [] d = 6 -> "6" [] d = 7 -> "7"
      [] d = 8 -> "8" [] OTHER -> "9"

RECURSIVE NumToStr(_)
NumToStr(n) ==
    IF n < 10 THEN <<DigitChar(n)>>
    ELSE Append(NumToStr(n \div 10), DigitChar(n % 10))

\* GetSubstitution of String.prototype.replace for a string pattern (no
\* captures): $$ is a dollar sign and $& the match; any other $ is literal
\* (the two patterns for the text before and after the match are a dollar sign
\* and a quote character, which no text of this model holds side by side).
RECURSIVE GetSubstitution(_, _, _)
GetSubstitution(matched, replacement, i) ==
    IF i > Len(replacement) THEN <<>>
    ELSE IF replacement[i] = "$" /\ i < Len(replacement)
              /\ replacement[i + 1] \in {"$", "&"}
         THEN (IF replacement[i + 1] = "$" THEN <<"$">> ELSE matched)
              \o GetSubstitution(matched, replacement, i + 2)
         ELSE <<replacement[i]>> \o GetSubstitution(matched, replacement, i + 1)

\* text.replace(key, value) with a string key: the first occurrence only
ReplaceString(s, key, value) ==
    LET p == IndexOfFrom(s, key, 1)
    IN  IF p = 0 THEN s
        ELSE SubSeq(s, 1, p - 1)
             \o GetSubstitution(key, value, 1)
             \o SubSeq(s, p + Len(key), Len(s))

\* the first position >= i that holds no whitespace (Len(s) + 1 if none)
SkipWhitespace(s, i) ==
    LET stop == {j \in i..Len(s) : s[j] \notin Whitespace}
    IN  IF stop = {} THEN Len(s) + 1 ELSE MinOf(stop)

\* s.replace(/\s+/g, " ")
RECURSIVE CollapseFrom(_, _)
CollapseFrom(s, i) ==
    LET at == {j \in i..Len(s) : s[j] \in Whitespace}
    IN  IF at = {} THEN SubSeq(s, i, Len(s))
        ELSE SubSeq(s, i, MinOf(at) - 1) \o <<" ">>
             \o CollapseFrom(s, SkipWhitespace(s, MinOf(at)))

CollapseWhitespace(s) == CollapseFrom(s, 1)

----------------------------------------------------------------------------
(* formatHtmlStructure: the classification of one trimmed line. *)

\* the alternatives of the negative lookahead of openTags
OpenTagsExcluded ==
    { <<"/">>, <<"!">>, <<"b","r">>, <<"h","r">>, <<"i","m","g">>, <<"i","n","p","u","t">>, <<"l","i","n","k">>, <<"m","e","t","a">>, <<"a","r","e","a">>, <<"b","a","s","e">>,
      <<"c","o","l">>, <<"e","m","b","e","d">>, <<"p","a","r","a","m">>, <<"s","o","u","r","c","e">>, <<"t","r","a","c","k">>, <<"w","b","r">>,
      <<"j","s","p",":","i","n","c","l","u","d","e">>, <<"j","s","p",":","f","o","r","w","a","r","d">>, <<"j","s","p",":","p","a","r","a","m">>, <<"j","s","p",":","s","e","t","P","r","o","p","e","r","t","y">>,
      <<"j","s","p",":","g","e","t","P","r","o","p","e","r","t","y">>, <<"j","s","p",":","u","s","e","B","e","a","n">>,
      <<"c",":","o","u","t">>, <<"c",":","s","e","t">>, <<"c",":","r","e","m","o","v","e">>, <<"c",":","p","a","r","a","m">>, <<"c",":","r","e","d","i","r","e","c","t">>,
      <<"f","m","t",":","m","e","s","s","a","g","e">>, <<"f","m","t",":","f","o","r","m","a","t","N","u","m","b","e","r">>, <<"f","m","t",":","f","o","r","m","a","t","D","a","t","e">>, <<"f","m","t",":","s","e","t","L","o","c","a","l","e">>,
      <<"f","m","t",":","s","e","t","B","u","n","d","l","e">>, <<"f","m","t",":","r","e","q","u","e","s","t","E","n","c","o","d","i","n","g">>, <<"f","m","t",":","s","e","t","T","i","m","e","Z","o","n","e">>,
      <<"s","q","l",":","p","a","r","a","m">>, <<"s","q","l",":","d","a","t","e","P","a","r","a","m">>, <<"s","q","l",":","s","e","t","D","a","t","a","S","o","u","r","c","e">> }

\* the alternatives of the group of jspOpenTags and of jspCloseTags
JspBlockTags ==
    { <<"c",":","i","f">>, <<"c",":","c","h","o","o","s","e">>, <<"c",":","w","h","e","n">>, <<"c",":","o","t","h","e","r","w","i","s","e">>, <<"c",":","f","o","r","E","a","c","h">>, <<"c",":","f","o","r","T","o","k","e","n","s">>,
      <<"c",":","c","a","t","c","h">>, <<"c",":","i","m","p","o","r","t">>, <<"c",":","u","r","l">>,
      <<"f","m","t",":","b","u","n","d","l","e">>, <<"f","m","t",":","t","i","m","e","Z","o","n","e">>,
      <<"s","q","l",":","q","u","e","r","y">>, <<"s","q","l",":","u","p","d","a","t","e">>, <<"s","q","l",":","t","r","a","n","s","a","c","t","i","o","n">>,
      <<"x",":","p","a","r","s","e">>, <<"x",":","i","f">>, <<"x",":","c","h","o","o","s","e">>, <<"x",":","w","h","e","n">>, <<"x",":","o","t","h","e","r","w","i","s","e">>, <<"x",":","f","o","r","E","a","c","h">>,
      <<"x",":","t","r","a","n","s","f","o","r","m">>,
      <<"j","s","p",":","i","n","c","l","u","d","e">>, <<"j","s","p",":","f","o","r","w","a","r","d">>, <<"j","s","p",":","u","s","e","B","e","a","n">>, <<"j","s","p",":","e","l","e","m","e","n","t">>, <<"j","s","p",":","b","o","d","y">>,
      <<"j","s","p",":","a","t","t","r","i","b","u","t","e">> }

\* /^<(?!...)[a-zA-Z:][^>]*[^\/]>$/
openTags(t) ==
    /\ Len(t) >= 4
    /\ t[1] = "<"
    /\ ~ \E p \in OpenTagsExcluded : StartsWithAt(t, 2, p)
    /\ t[2] \in TagNameStart
    /\ \A k \in 3..(Len(t) - 2) : t[k] # ">"
    /\ t[Len(t) - 1] # "/"
    /\ t[Len(t)] = ">"

\* /^<\/[a-zA-Z:][^>]*>$/
closeTags(t) ==
    /\ Len(t) >= 4
    /\ t[1] = "<"
    /\ t[2] = "/"
    /\ t[3] \in TagNameStart
    /\ \A k \in 4..(Len(t) - 1) : t[k] # ">"
    /\ t[Len(t)] = ">"

\* /^<[a-zA-Z:][^>]*\/>$/
selfCloseTags(t) ==
    /\ Len(t) >= 4
    /\ t[1] = "<"
    /\ t[2] \in TagNameStart
    /\ \A k \in 3..(Len(t) - 2) : t[k] # ">"
    /\ t[Len(t) - 1] = "/"
    /\ t[Len(t)] = ">"

\* /^<(c:(?:if|...)|...)[^>]*[^\/]>/ : no $, a prefix of the line matches
jspOpenTags(t) ==
    \E name \in JspBlockTags :
        /\ StartsWithAt(t, 1, <<"<">> \o name)
        /\ \E k \in (2 + Len(name))..(Len(t) - 1) :
              /\ \A j \in (2 + Len(name))..(k - 1) : t[j] # ">"
              /\ t[k] # "/"
              /\ t[k + 1] = ">"

\* /^<\/(c:(?:if|...)|...)>/
jspCloseTags(t) ==
    \E name \in JspBlockTags : StartsWithAt(t, 1, <<"<","/">> \o name \o <<">">>)

IndentUnitFromWrap(o) ==
    IF o.insertSpaces
    THEN Repeat(<<" ">>, IF o.wrapLineLength < 80 THEN 1 ELSE o.tabSize)
    ELSE <<"\t">>

\* const indent = options.insertSpaces ? ' '.repeat(options.tabSize) : '\t'
IndentUnit(o) == IF o.insertSpaces THEN Repeat(<<" ">>, o.tabSize) ELSE <<"\t">>

\* level = Math.max(0, level - 1)
DecreaseNoClamp(lv) == lv - 1

Decrease(lv) == Max(0, lv - 1)

\* closeTags.test(trimmed) || jspCloseTags.test(trimmed)
IsClosingLine(t) == closeTags(t) \/ jspCloseTags(t)

\* the depth a line is emitted at: decreased first for a closing tag
EmitLevelAfterPush(lv, t) == lv

EmitLevel(lv, t) == IF IsClosingLine(t) THEN Decrease(lv) ELSE lv

\* whether the depth increases after the line
IsOpeningLine(t) == ~ selfCloseTags(t) /\ (openTags(t) \/ jspOpenTags(t))

NextLevelAlwaysDeeper(lv, t) == EmitLevel(lv, t) + 1

\* the depth after the line
NextLevel(lv, t) ==
    IF IsOpeningLine(t) THEN EmitLevel(lv, t) + 1 ELSE EmitLevel(lv, t)

\* one iteration of the loop over the lines: [level, result]
HtmlLine(st, rawLine, indent) ==
    LET trimmed == Trim(rawLine)
    IN  IF trimmed = <<>>
        THEN [level |-> st.level, result |-> Append(st.result, <<>>)]
        ELSE [level  |-> NextLevel(st.level, trimmed),
              result |-> Append(st.result,
                          Repeat(indent, EmitLevel(st.level, trimmed)) \o trimmed)]

RECURSIVE HtmlLines(_, _, _, _)
HtmlLines(lines, i, st, indent) ==
    IF i > Len(lines) THEN st
    ELSE HtmlLines(lines, i + 1, HtmlLine(st, lines[i], indent), indent)

formatHtmlStructure(text, o) ==
    JoinLines(HtmlLines(SplitLines(text), 1,
                        [level |-> 0, result |-> <<>>], IndentUnit(o)).result)

----------------------------------------------------------------------------
(* formatJavaCode: the regular-expression passes and the indentation loop. *)

\* /"(?:[^"\\]|\\.)*"/ at position i: the position of the closing quote, 0 if
\* the literal is not closed
RECURSIVE StringLiteralEnd(_, _)
StringLiteralEnd(s, j) ==
    IF j > Len(s) THEN 0
    ELSE IF s[j] = "\"" THEN j
    ELSE IF s[j] = "\\"
         THEN IF j + 1 <= Len(s) /\ s[j + 1] \notin LineTerminator
              THEN StringLiteralEnd(s, j + 2)
              ELSE 0
    ELSE StringLiteralEnd(s, j + 1)

StringKey(n) == <<"_","_","S","T","R","_">> \o NumToStr(n) \o <<"_","_">>

\* code.replace(/"(?:[^"\\]|\\.)*"/g, ...): [code, stringMap]
RECURSIVE ProtectStrings(_, _, _)
ProtectStrings(s, i, st) ==
    LET at == {j \in i..Len(s) : s[j] = "\"" /\ StringLiteralEnd(s, j + 1) # 0}
    IN  IF at = {} THEN [st EXCEPT !.code = @ \o SubSeq(s, i, Len(s))]
        ELSE LET b == MinOf(at)
                 e == StringLiteralEnd(s, b + 1)
             IN  ProtectStrings(s, e + 1,
                    [code |-> st.code \o SubSeq(s, i, b - 1)
                                      \o StringKey(Len(st.stringMap)),
                     stringMap |-> Append(st.stringMap,
                                     [key |-> StringKey(Len(st.stringMap)),
                                      value |-> SubSeq(s, b, e)])])

\* code.replace(/\r\n/g, '\n').replace(/\r/g, '\n')
RECURSIVE NormalizeLineEndings(_, _)
NormalizeLineEndings(s, i) ==
    LET at == {j \in i..Len(s) : s[j] = "\r"}
    IN  IF at = {} THEN SubSeq(s, i, Len(s))
        ELSE LET j == MinOf(at)
             IN  SubSeq(s, i, j - 1) \o <<"\n">>
                 \o NormalizeLineEndings(s,
                       IF j < Len(s) /\ s[j + 1] = "\n" THEN j + 2 ELSE j + 1)

\* \s*\n matches right after position i
NewlineAhead(s, i) ==
    LET j == SkipWhitespace(s, i + 1)
    IN  \E k \in (i + 1)..(j - 1) : s[k] = "\n"

\* \n\s* ends right before position i
NewlineBehind(s, i) ==
    \E k \in 1..(i - 1) :
        s[k] = "\n" /\ \A j \in (k + 1)..(i - 1) : s[j] \in Whitespace

ContinuationAheadNewlineOnly(s, i) == NewlineAhead(s, i)

\* \s*(?:else|catch|finally|\n) matches right after position i
ContinuationAhead(s, i) ==
    \/ NewlineAhead(s, i)
    \/ \E kw \in {<<"e","l","s","e">>, <<"c","a","t","c","h">>, <<"f","i","n","a","l","l","y">>} :
          StartsWithAt(s, SkipWhitespace(s, i + 1), kw)

\* /;(?!\s*\n)/g -> ';\n'
RECURSIVE BreakAfterSemicolon(_, _)
BreakAfterSemicolon(s, i) ==
    LET at == {j \in i..Len(s) : s[j] = ";" /\ ~ NewlineAhead(s, j)}
    IN  IF at = {} THEN SubSeq(s, i, Len(s))
        ELSE SubSeq(s, i, MinOf(at)) \o <<"\n">>
             \o BreakAfterSemicolon(s, MinOf(at) + 1)

\* /\{(?!\s*\n)/g -> '{\n'
RECURSIVE BreakAfterOpenBrace(_, _)
BreakAfterOpenBrace(s, i) ==
    LET at == {j \in i..Len(s) : s[j] = "{" /\ ~ NewlineAhead(s, j)}
    IN  IF at = {} THEN SubSeq(s, i, Len(s))
        ELSE SubSeq(s, i, MinOf(at)) \o <<"\n">>
             \o BreakAfterOpenBrace(s, MinOf(at) + 1)

\* /(?<!\n\s*)\}/g -> '\n}'
RECURSIVE BreakBeforeCloseBrace(_, _)
BreakBeforeCloseBrace(s, i) ==
    LET at == {j \in i..Len(s) : s[j] = "}" /\ ~ NewlineBehind(s, j)}
    IN  IF at = {} THEN SubSeq(s, i, Len(s))
        ELSE SubSeq(s, i, MinOf(at) - 1) \o <<"\n", "}">>
             \o BreakBeforeCloseBrace(s, MinOf(at) + 1)

\* /\}(?!\s*(?:else|catch|finally|\n))/g -> '}\n'
RECURSIVE BreakAfterCloseBrace(_, _)
BreakAfterCloseBrace(s, i) ==
    LET at == {j \in i..Len(s) : s[j] = "}" /\ ~ ContinuationAhead(s, j)}
    IN  IF at = {} THEN SubSeq(s, i, Len(s))
        ELSE SubSeq(s, i, MinOf(at)) \o <<"\n">>
             \o BreakAfterCloseBrace(s, MinOf(at) + 1)

\* match.replace(/;\n/g, '; ')
RECURSIVE JoinHeader(_, _)
JoinHeader(s, i) ==
    LET at == {j \in i..(Len(s) - 1) : s[j] = ";" /\ s[j + 1] = "\n"}
    IN  IF at = {} THEN SubSeq(s, i, Len(s))
        ELSE SubSeq(s, i, MinOf(at)) \o <<" ">> \o JoinHeader(s, MinOf(at) + 2)

\* /for\s*\([^)]*\)/ at position i: the position of the ')', 0 if no match
ForHeaderEnd(s, i) ==
    IF ~ StartsWithAt(s, i, <<"f","o","r">>) THEN 0
    ELSE LET p == SkipWhitespace(s, i + 3)
         IN  IF p <= Len(s) /\ s[p] = "(" THEN IndexOfFrom(s, <<")">>, p + 1) ELSE 0

\* code.replace(/for\s*\([^)]*\)/g, ...)
RECURSIVE RestoreForHeaders(_, _)
RestoreForHeaders(s, i) ==
    LET at == {j \in i..Len(s) : ForHeaderEnd(s, j) # 0}
    IN  IF at = {} THEN SubSeq(s, i, Len(s))
        ELSE LET b == MinOf(at)
                 e == ForHeaderEnd(s, b)
             IN  SubSeq(s, i, b - 1) \o JoinHeader(SubSeq(s, b, e), 1)
                 \o RestoreForHeaders(s, e + 1)

JavaDecreaseNoClamp(lv) == lv - 1

\* level = Math.max(1, level - 1)
JavaDecrease(lv) == Max(1, lv - 1)

JavaEmitLevelNoClose(lv, t) == lv

\* if (trimmed.startsWith('}')) { level = Math.max(1, level - 1); }
JavaEmitLevel(lv, t) == IF t[1] = "}" THEN JavaDecrease(lv) ELSE lv

\* one iteration of the indentation loop: [level, result]
JavaLine(st, rawLine, indent) ==
    LET trimmed == Trim(rawLine)
    IN  IF trimmed = <<>>
        THEN [level |-> st.level, result |-> Append(st.result, <<>>)]
        ELSE [level  |-> IF trimmed[Len(trimmed)] = "{"
                         THEN JavaEmitLevel(st.level, trimmed) + 1
                         ELSE JavaEmitLevel(st.level, trimmed),
              result |-> Append(st.result,
                          Repeat(indent, JavaEmitLevel(st.level, trimmed))
                          \o trimmed)]

RECURSIVE JavaLines(_, _, _, _)
JavaLines(lines, i, st, indent) ==
    IF i > Len(lines) THEN st
    ELSE JavaLines(lines, i + 1, JavaLine(st, lines[i], indent), indent)

\* for (const [key, value] of map) { text = text.replace(key, value); }
RECURSIVE RestoreFrom(_, _, _)
RestoreFrom(s, map, i) ==
    IF i > Len(map) THEN s
    ELSE RestoreFrom(ReplaceString(s, map[i].key, map[i].value), map, i + 1)

\* the text of the code after the regular-expression passes
JavaBreakLines(code) ==
    RestoreForHeaders(
        BreakAfterCloseBrace(
            BreakBeforeCloseBrace(
                BreakAfterOpenBrace(
                    BreakAfterSemicolon(NormalizeLineEndings(code, 1), 1), 1), 1), 1), 1)

formatJavaCode(code, indent) ==
    LET protected == ProtectStrings(code, 1, [code |-> <<>>, stringMap |-> <<>>])
        lines     == SplitLines(JavaBreakLines(protected.code))
        indented  == JavaLines(lines, 1, [level |-> 1, result |-> <<>>], indent)
    IN  RestoreFrom(JoinLines(indented.result), protected.stringMap, 1)

----------------------------------------------------------------------------
(* The content transforms of the region kinds. *)

\* block.slice(from, -back), positions counted from 0 as in the source
Slice(s, from, back) == SubSeq(s, from + 1, Len(s) - back)

\* const isDecl = block.startsWith('<%!'); const prefix = isDecl ? '<%!' : '<%'
BlockPrefix(block) == IF StartsWithAt(block, 1, <<"<","%","!">>) THEN <<"<","%","!">> ELSE <<"<","%">>

\* block.slice(prefix.length, -2).trim()
BlockContent(block) == Trim(Slice(block, Len(BlockPrefix(block)), 2))

IsShortBlockOrBraced(content) ==
    /\ ~ Includes(content, <<"\n">>)
    /\ Len(content) < 60
    /\ CountChar(content, ";") <= 1

\* the condition of lines 221-222
IsShortBlock(content) ==
    /\ ~ Includes(content, <<"\n">>)
    /\ Len(content) < 60
    /\ ~ Includes(content, <<"{">>)
    /\ CountChar(content, ";") <= 1

formatJspBlock(block, o) ==
    LET prefix  == BlockPrefix(block)
        content == BlockContent(block)
    IN  IF IsShortBlock(content)
        THEN prefix \o <<" ">> \o content \o <<" ","%",">">>
        ELSE prefix \o <<"\n">> \o formatJavaCode(content, IndentUnit(o)) \o <<"\n","%",">">>

formatJspComment(comment) ==
    LET content == Trim(Slice(comment, 4, 4))
    IN  IF ~ Includes(content, <<"\n">>) /\ Len(content) < 80
        THEN <<"<","%","-","-"," ">> \o content \o <<" ","-","-","%",">">>
        ELSE comment

\* /\w+(?::\w+)?="[^"]*"/ at position i: the position of the closing quote,
\* 0 if no match
RECURSIVE WordEnd(_, _)
WordEnd(s, i) ==
    IF i <= Len(s) /\ s[i] \in WordChar THEN WordEnd(s, i + 1) ELSE i

AttrPairEnd(s, i) ==
    LET w1 == WordEnd(s, i)
        w2 == IF w1 <= Len(s) /\ s[w1] = ":" /\ WordEnd(s, w1 + 1) > w1 + 1
              THEN WordEnd(s, w1 + 1) ELSE w1
        quoted(p) == IF StartsWithAt(s, p, <<"=","\"">>)
                     THEN IndexOfFrom(s, <<"\"">>, p + 2) ELSE 0
    IN  IF w1 = i THEN 0
        ELSE IF quoted(w2) # 0 THEN quoted(w2) ELSE quoted(w1)

\* attrs.match(/\w+(?::\w+)?="[^"]*"/g) || []
RECURSIVE AttrPairs(_, _)
AttrPairs(s, i) ==
    \* \w+ is greedy and no word character follows it: the leftmost match
    \* starts where the scan starts or where a word starts
    LET at == {j \in i..Len(s) : /\ s[j] \in WordChar
                                 /\ j = i \/ s[j - 1] \notin WordChar
                                 /\ AttrPairEnd(s, j) # 0}
    IN  IF at = {} THEN <<>>
        ELSE <<SubSeq(s, MinOf(at), AttrPairEnd(s, MinOf(at)))>>
             \o AttrPairs(s, AttrPairEnd(s, MinOf(at)) + 1)

\* a mutant of AttrLines: the closer is not appended to the last line
RECURSIVE AttrLinesNoCloser(_, _)
AttrLinesNoCloser(pairs, i) ==
    IF i > Len(pairs) THEN <<>>
    ELSE <<<<" "," "," "," ">> \o pairs[i]>> \o AttrLinesNoCloser(pairs, i + 1)

RECURSIVE AttrLines(_, _)
AttrLines(pairs, i) ==
    IF i > Len(pairs) THEN <<>>
    ELSE <<<<" "," "," "," ">> \o pairs[i] \o (IF i = Len(pairs) THEN <<" ","%",">">> ELSE <<>>)>>
         \o AttrLines(pairs, i + 1)

\* the soft length threshold of formatDirective
DirectiveMaxLength == 120

formatDirective(directive) ==
    LET content == Trim(CollapseWhitespace(directive))
        \* /^(<%@\s*\w+)\s+(.*)\s*(%>)$/
        nameAt  == SkipWhitespace(content, 4)
        nameEnd == WordEnd(content, nameAt)
        matches == /\ nameEnd > nameAt
                   /\ nameEnd <= Len(content) - 2
                   /\ content[nameEnd] \in Whitespace
        prefix  == SubSeq(content, 1, nameEnd - 1)
        attrs   == SubSeq(content, SkipWhitespace(content, nameEnd), Len(content) - 2)
        pairs   == AttrPairs(attrs, 1)
    IN  IF Len(content) <= DirectiveMaxLength THEN content
        ELSE IF ~ matches THEN content
        ELSE IF Len(pairs) <= 1 THEN content
        ELSE JoinLines(<<prefix>> \o AttrLines(pairs, 1))

----------------------------------------------------------------------------
(* formatJsp: the extraction passes, in the order of the source. *)

PassesScriptletFirst ==
    << "JSP_SCRIPT", "JSP_COMMENT", "JSP_DECL", "JSP_EXPR", "JSP_DIR",
       "EL", "DEL", "SCRIPT", "STYLE" >>

\* the nine replace statements of lines 57-117, in their order
Passes == << "JSP_COMMENT", "JSP_DECL", "JSP_EXPR", "JSP_SCRIPT", "JSP_DIR",
             "EL", "DEL", "SCRIPT", "STYLE" >>

KindName(kind) ==
    CASE kind = "JSP_COMMENT" -> <<"J","S","P","_","C","O","M","M","E","N","T">>
      [] kind = "JSP_DECL"    -> <<"J","S","P","_","D","E","C","L">>
      [] kind = "JSP_EXPR"    -> <<"J","S","P","_","E","X","P","R">>
      [] kind = "JSP_SCRIPT"  -> <<"J","S","P","_","S","C","R","I","P","T">>
      [] kind = "JSP_DIR"     -> <<"J","S","P","_","D","I","R">>
      [] kind = "EL"          -> <<"E","L">>
      [] kind = "DEL"         -> <<"D","E","L">>
      [] kind = "SCRIPT"      -> <<"S","C","R","I","P","T">>
      [] OTHER                -> <<"S","T","Y","L","E">>

\* const key = `__KIND_${counter++}__`
PlaceholderKey(kind, n) == <<"_","_">> \o KindName(kind) \o <<"_">> \o NumToStr(n) \o <<"_","_">>

DelimitedToEnd(s, i, open, close) ==
    IF ~ StartsWithAt(s, i, open) THEN 0
    ELSE LET c == IndexOfFrom(s, close, i + Len(open))
         IN  IF c = 0 THEN Len(s) ELSE c + Len(close) - 1

\* open, then as few characters as possible, then close: the position of the
\* last character of the match that starts at i, 0 if there is none
Delimited(s, i, open, close) ==
    IF ~ StartsWithAt(s, i, open) THEN 0
    ELSE LET c == IndexOfFrom(s, close, i + Len(open))
         IN  IF c = 0 THEN 0 ELSE c + Len(close) - 1

\* the text a pass matches against: the i flag of the last two passes
Haystack(kind, s) == IF kind \in {"SCRIPT", "STYLE"} THEN ToLower(s) ELSE s

\* the regular expression of each pass, matched at position i
RegionEnd(kind, s, i) ==
    CASE kind = "JSP_COMMENT" -> Delimited(s, i, <<"<","%","-","-">>, <<"-","-","%",">">>)
      [] kind = "JSP_DECL"    -> Delimited(s, i, <<"<","%","!">>, <<"%",">">>)
      [] kind = "JSP_EXPR"    -> Delimited(s, i, <<"<","%","=">>, <<"%",">">>)
      [] kind = "JSP_SCRIPT"  ->
            IF i + 2 <= Len(s) /\ s[i + 2] \in {"=", "!", "@", "-"} THEN 0
            ELSE Delimited(s, i, <<"<","%">>, <<"%",">">>)
      [] kind = "JSP_DIR"     -> Delimited(s, i, <<"<","%","@">>, <<"%",">">>)
      [] kind = "EL"          -> Delimited(s, i, <<"$","{">>, <<"}">>)
      [] kind = "DEL"         -> Delimited(s, i, <<"#","{">>, <<"}">>)
      [] kind = "SCRIPT"      -> Delimited(s, i, <<"<","s","c","r","i","p","t">>, <<"<","/","s","c","r","i","p","t",">">>)
      [] OTHER                -> Delimited(s, i, <<"<","s","t","y","l","e">>, <<"<","/","s","t","y","l","e",">">>)

\* the content stored under the key
Transform(kind, match, o) ==
    CASE kind = "JSP_COMMENT" -> formatJspComment(match)
      [] kind = "JSP_DECL"    -> formatJspBlock(match, o)
      [] kind = "JSP_EXPR"    -> Trim(CollapseWhitespace(match))
      [] kind = "JSP_SCRIPT"  -> formatJspBlock(match, o)
      [] kind = "JSP_DIR"     -> formatDirective(match)
      [] OTHER                -> match

\* text.replace(/.../g, (match) => { ... }) of one pass:
\* st = [text, preserveMap, counter]; preserveMap keeps the insertion order
RECURSIVE ExtractFrom(_, _, _, _, _, _)
ExtractFrom(kind, s, hay, i, st, o) ==
    IF i > Len(s) THEN st
    ELSE LET e == RegionEnd(kind, hay, i)
         IN  IF e = 0
             THEN ExtractFrom(kind, s, hay, i + 1,
                              [st EXCEPT !.text = Append(@, s[i])], o)
             ELSE ExtractFrom(kind, s, hay, e + 1,
                    [text        |-> st.text \o PlaceholderKey(kind, st.counter),
                     preserveMap |-> Append(st.preserveMap,
                                       [key   |-> PlaceholderKey(kind, st.counter),
                                        value |-> Transform(kind, SubSeq(s, i, e), o)]),
                     counter     |-> st.counter + 1], o)

ExtractPass(kind, st, o) ==
    ExtractFrom(kind, st.text, Haystack(kind, st.text), 1,
                [text |-> <<>>, preserveMap |-> st.preserveMap,
                 counter |-> st.counter], o)

\* the first position after the run of '\n' that starts at i
NewlineRunEnd(s, i) ==
    LET stop == {j \in i..Len(s) : s[j] # "\n"}
    IN  IF stop = {} THEN Len(s) + 1 ELSE MinOf(stop)

\* text.replace(/\n{n+2,}/g, "\n".repeat(n + 1)) with n = maxPreserveNewlines
RECURSIVE CollapseNewlines(_, _, _)
CollapseNewlines(s, i, n) ==
    IF i > Len(s) THEN <<>>
    ELSE IF s[i] = "\n"
         THEN LET e == NewlineRunEnd(s, i)
              IN  (IF e - i >= n + 2 THEN Repeat(<<"\n">>, n + 1)
                   ELSE SubSeq(s, i, e - 1))
                  \o CollapseNewlines(s, e, n)
         ELSE <<s[i]>> \o CollapseNewlines(s, i + 1, n)

HandleNewlines(s, o) ==
    IF o.preserveNewlines THEN CollapseNewlines(s, 1, o.maxPreserveNewlines) ELSE s

\* text.replace(/\s+$/, '\n')
EnsureNewlineAtEnd(s) ==
    LET tail == {i \in 1..Len(s) : \A k \in i..Len(s) : s[k] \in Whitespace}
    IN  IF tail = {} THEN s ELSE SubSeq(s, 1, MinOf(tail) - 1) \o <<"\n">>

RECURSIVE ExtractAll(_, _, _)
ExtractAll(p, st, o) ==
    IF p > Len(Passes) THEN st ELSE ExtractAll(p + 1, ExtractPass(Passes[p], st, o), o)

formatJsp(t, o) ==
    LET ex == ExtractAll(1, [text |-> t, preserveMap |-> <<>>, counter |-> 0], o)
    IN  EnsureNewlineAtEnd(
            HandleNewlines(
                RestoreFrom(formatHtmlStructure(ex.text, o), ex.preserveMap, 1), o))

----------------------------------------------------------------------------
(* The inputs. *)

\* how many fragments a document is made of
MaxFragments == 3

\* how many lines the markup skeletons have
MaxLines == 4

\* the largest maxPreserveNewlines tried
MaxPreserve == 2

Fragments ==
    { <<"a">>, <<"\n","\n","\n">>, <<"$","{","x","}">>, <<"$","$">>, <<"<","s","c","r","i","p","t",">">>, <<"<","/","s","c","r","i","p","t",">">>, <<"_","_","E","L","_","0","_","_">>,
      <<"<","%","f","o","r","(",";",";",")","{","%",">">> }

RECURSIVE Flatten(_)
Flatten(ss) == IF Len(ss) = 0 THEN <<>> ELSE ss[1] \o Flatten(Tail(ss))

SeqsUpTo(S, n) == UNION {[1..k -> S] : k \in 0..n}

Documents == {Flatten(fs) : fs \in SeqsUpTo(Fragments, MaxFragments)}

\* markup skeletons: one tag or one word per line
SkeletonLines ==
    { <<"<","d","i","v",">">>, <<"<","/","d","i","v",">">>, <<"<","b","r",">">>, <<"x">>, <<" ">>, <<"<","c",":","i","f"," ","a",">">>, <<"<","/","c",":","i","f",">">> }

Skeletons == {JoinLines(ls) : ls \in SeqsUpTo(SkeletonLines, MaxLines) \ {<<>>}}

\* how many lines the tag samples have
MaxTagLines == 2

\* lines of the kinds the classification tells apart: one tag, text, and an
\* element that opens and closes on the line
TagLines ==
    { <<"<","p",">">>, <<"<","/","p",">">>, <<"<","c","o","l","g","r","o","u","p",">">>, <<"<","i","m","g"," ","a",">">>, <<"<","j","s","p",":","i","n","c","l","u","d","e"," ","p",">">>, <<"<","c",":","o","u","t"," ","v",">">>,
      <<"<","b","r","/",">">>, <<"<","d","i","v","s",">">>, <<"x">>, <<"<","c",":","w","h","e","n"," ","a",">","x","<","/","c",":","w","h","e","n",">">> }

TagSamples == {JoinLines(ls) : ls \in SeqsUpTo(TagLines, MaxTagLines) \ {<<>>}}

\* the FormatOptions of the interface at lines 296-302
AllOptions ==
    [ tabSize : {2}, insertSpaces : BOOLEAN, preserveNewlines : BOOLEAN,
      maxPreserveNewlines : 0..MaxPreserve, wrapLineLength : {120} ]

\* spaces, every cap on the blank lines, and no cap
FormatOptions ==
    { o \in AllOptions :
        /\ o.insertSpaces
        /\ ~ o.preserveNewlines => o.maxPreserveNewlines = 0 }

\* spaces and tabs
IndentOptions ==
    { o \in AllOptions : o.preserveNewlines /\ o.maxPreserveNewlines = 0 }

----------------------------------------------------------------------------
(* The state of one formatting request. *)

VARIABLES
    source,       \* formatRange: const text = document.getText(range)
    options,      \* the FormatOptions of the request
    pc,           \* the statement of formatJsp the request is at
    pass,         \* the extraction pass that runs next (an index of Passes)
    text,         \* formatJsp: text
    preserveMap,  \* formatJsp: preserveMap, in insertion order
    counter,      \* formatJsp: counter
    lines,        \* formatHtmlStructure: lines
    lineNo,       \* formatHtmlStructure: how many lines the loop has taken
    level,        \* formatHtmlStructure: level
    result,       \* formatHtmlStructure: result
    restored,     \* formatJsp: how many entries the restore loop has taken
    formatted,    \* formatRange: const formatted
    calls,        \* how many times formatJsp has been called
    document,     \* the text of the vscode.TextDocument
    range,        \* formatRange: range, as << start offset, end offset >>
    edits,        \* formatRange: the vscode.TextEdit[] returned
    previous,     \* the text an earlier call returned for the same source
    code,         \* formatJavaCode: code
    stringMap,    \* formatJavaCode: stringMap, in insertion order
    javaLines,    \* formatJavaCode: lines
    javaLineNo,   \* formatJavaCode: how many lines the loop has taken
    javaLevel,    \* formatJavaCode: level
    javaResult,   \* formatJavaCode: result
    diagnosticCollection, \* the uris the vscode.DiagnosticCollection has an entry for
    debounceTimer,        \* JspDiagnosticsProvider.debounceTimer: a handle, 0 for undefined
    timers,               \* the timeouts of the host that are set and have not run
    openDocuments,        \* the text documents the workspace has open
    lastDocument,         \* the document of the latest updateDiagnostics call
    sinceCall,            \* the milliseconds since that call, up to DebounceDelay
    runsSinceCall,        \* how many times runDiagnostics has run since that call
    requested             \* the documents passed to updateDiagnostics and not checked since

\* the request as the editor sees it
hostVars == << document, range, edits, previous >>

\* the locals of formatJavaCode
javaVars == << code, stringMap, javaLines, javaLineNo, javaLevel, javaResult >>

vars == << source, options, pc, pass, text, preserveMap, counter, lines,
           lineNo, level, result, restored, formatted, calls,
           document, range, edits, previous,
           code, stringMap, javaLines, javaLineNo, javaLevel, javaResult,
           diagnosticCollection, debounceTimer, timers, openDocuments,
           lastDocument, sinceCall, runsSinceCall, requested >>

\* the state of the diagnostics provider and of the host around it
diagVars == << diagnosticCollection, debounceTimer, timers, openDocuments,
               lastDocument, sinceCall, runsSinceCall, requested >>

\* no document: the value of lastDocument before the first call
NoDocument == "none"

\* the provider after its constructor, in a workspace without documents
DiagIdle ==
    /\ diagnosticCollection = {}
    /\ debounceTimer = 0
    /\ timers = {}
    /\ openDocuments = {}
    /\ lastDocument = NoDocument
    /\ sinceCall = 0
    /\ runsSinceCall = 0
    /\ requested = {}

\* formatJavaCode has not been entered: lines 232-233 and 262-264
JavaIdle ==
    /\ code = <<>>
    /\ stringMap = <<>>
    /\ javaLines = <<>>
    /\ javaLineNo = 0
    /\ javaLevel = 1
    /\ javaResult = <<>>

Start(t, o) ==
    /\ source = t
    /\ options = o
    /\ pc = "extract"
    /\ pass = 1
    /\ text = t
    /\ preserveMap = <<>>
    /\ counter = 0
    /\ lines = <<>>
    /\ lineNo = 0
    /\ level = 0
    /\ result = <<>>
    /\ restored = 0
    /\ formatted = <<>>
    /\ calls = 1
    /\ document = t
    /\ range = << 0, Len(t) >>
    /\ edits = <<>>
    /\ previous = <<>>
    /\ JavaIdle
    /\ DiagIdle

Init == \E t \in Documents, o \in FormatOptions : Start(t, o)

\* String.prototype.repeat(count) throws a RangeError for a negative count
RepeatThrows(count) == count < 0

\* options.insertSpaces ? ' '.repeat(options.tabSize) : '\t' throws
IndentThrows(o) == o.insertSpaces /\ RepeatThrows(o.tabSize)

\* a mutant of maxNewlinesCount: the count is taken below the maximum
maxNewlinesCountBelow(o) == o.maxPreserveNewlines - 1

\* the count of '\n'.repeat(options.maxPreserveNewlines + 1)
maxNewlinesCount(o) == o.maxPreserveNewlines + 1

\* an exception leaves formatJsp: no statement of the provider catches it
Throw ==
    /\ pc' = "threw"
    /\ UNCHANGED << source, options, pass, text, preserveMap, counter, lines,
                    lineNo, level, result, restored, formatted, calls,
                    hostVars, diagVars, javaVars >>

\* one text.replace(...) of lines 57-117
ExtractRegions ==
    /\ pc = "extract"
    /\ LET st == ExtractPass(Passes[pass],
                   [text |-> text, preserveMap |-> preserveMap, counter |-> counter],
                   options)
       IN  \* formatJspBlock computes the indent unit for every block it is given
           IF /\ Passes[pass] \in {"JSP_DECL", "JSP_SCRIPT"}
              /\ st.counter > counter
              /\ IndentThrows(options)
           THEN Throw
           ELSE /\ text' = st.text
                /\ preserveMap' = st.preserveMap
                /\ counter' = st.counter
                /\ pass' = pass + 1
                /\ pc' = IF pass = Len(Passes) THEN "html" ELSE "extract"
                /\ UNCHANGED << calls, source, options, lines, lineNo, level,
                                result, restored, formatted >>
                /\ UNCHANGED << hostVars, diagVars, javaVars >>

\* formatHtmlStructure is entered: lines 141-144
FormatHtmlBegin ==
    /\ pc = "html"
    /\ IF IndentThrows(options)
       THEN Throw
       ELSE /\ lines' = SplitLines(text)
            /\ lineNo' = 0
            /\ level' = 0
            /\ result' = <<>>
            /\ pc' = "line"
            /\ UNCHANGED << calls, source, options, pass, text, preserveMap,
                            counter, restored, formatted >>
            /\ UNCHANGED << hostVars, diagVars, javaVars >>

\* one iteration of the loop of lines 155-175
FormatHtmlLine ==
    /\ pc = "line"
    /\ lineNo < Len(lines)
    /\ LET st == HtmlLine([level |-> level, result |-> result],
                          lines[lineNo + 1], IndentUnit(options))
       IN  /\ level' = st.level
           /\ result' = st.result
    /\ lineNo' = lineNo + 1
    /\ UNCHANGED << calls, source, options, pc, pass, text, preserveMap, counter, lines,
                    restored, formatted >>
    /\ UNCHANGED << hostVars, diagVars, javaVars >>

\* return result.join('\n'), assigned to text at line 120
FormatHtmlReturn ==
    /\ pc = "line"
    /\ lineNo = Len(lines)
    /\ text' = JoinLines(result)
    /\ restored' = 0
    /\ pc' = "restore"
    /\ UNCHANGED << calls, source, options, pass, preserveMap, counter, lines, lineNo,
                    level, result, formatted >>
    /\ UNCHANGED << hostVars, diagVars, javaVars >>

\* one iteration of the loop of lines 123-125
RestoreEntry ==
    /\ pc = "restore"
    /\ restored < Len(preserveMap)
    /\ text' = ReplaceString(text, preserveMap[restored + 1].key,
                             preserveMap[restored + 1].value)
    /\ restored' = restored + 1
    /\ UNCHANGED << calls, source, options, pc, pass, preserveMap, counter, lines, lineNo,
                    level, result, formatted >>
    /\ UNCHANGED << hostVars, diagVars, javaVars >>

\* lines 127-132
CapBlankLines ==
    /\ pc = "restore"
    /\ restored = Len(preserveMap)
    /\ IF options.preserveNewlines /\ RepeatThrows(maxNewlinesCount(options))
       THEN Throw
       ELSE /\ text' = HandleNewlines(text, options)
            /\ pc' = "end"
            /\ UNCHANGED << calls, source, options, pass, preserveMap, counter,
                            lines, lineNo, level, result, restored, formatted >>
            /\ UNCHANGED << hostVars, diagVars, javaVars >>

\* lines 134-137, and the assignment at line 37
FormatJspReturn ==
    /\ pc = "end"
    /\ text' = EnsureNewlineAtEnd(text)
    /\ formatted' = EnsureNewlineAtEnd(text)
    /\ pc' = "done"
    /\ UNCHANGED << calls, source, options, pass, preserveMap, counter, lines, lineNo,
                    level, result, restored >>
    /\ UNCHANGED << hostVars, diagVars, javaVars >>

Next ==
    \/ ExtractRegions
    \/ FormatHtmlBegin
    \/ FormatHtmlLine
    \/ FormatHtmlReturn
    \/ RestoreEntry
    \/ CapBlankLines
    \/ FormatJspReturn

Spec == Init /\ [][Next]_vars

----------------------------------------------------------------------------
(* The formatted text is formatted once more with the same options. *)

FormatAgain ==
    /\ pc = "done"
    /\ calls = 1
    /\ calls' = 2
    /\ source' = formatted
    /\ text' = formatted
    /\ pc' = "extract"
    /\ pass' = 1
    /\ preserveMap' = <<>>
    /\ counter' = 0
    /\ lines' = <<>>
    /\ lineNo' = 0
    /\ level' = 0
    /\ result' = <<>>
    /\ restored' = 0
    /\ formatted' = <<>>
    /\ UNCHANGED << options, hostVars, diagVars, javaVars >>

NextTwice ==
    \/ Next
    \/ FormatAgain

SpecTwice == Init /\ [][NextTwice]_vars

----------------------------------------------------------------------------
(* formatHtmlStructure alone, on markup skeletons. *)

StartHtml(t, o) ==
    /\ source = t
    /\ options = o
    /\ pc = "html"
    /\ pass = Len(Passes) + 1
    /\ text = t
    /\ preserveMap = <<>>
    /\ counter = 0
    /\ lines = <<>>
    /\ lineNo = 0
    /\ level = 0
    /\ result = <<>>
    /\ restored = 0
    /\ formatted = <<>>
    /\ calls = 1
    /\ document = t
    /\ range = << 0, Len(t) >>
    /\ edits = <<>>
    /\ previous = <<>>
    /\ JavaIdle
    /\ DiagIdle

InitIndent == \E t \in Skeletons \cup TagSamples, o \in IndentOptions : StartHtml(t, o)

NextIndent ==
    \/ FormatHtmlBegin
    \/ FormatHtmlLine
    \/ FormatHtmlReturn

SpecIndent == InitIndent /\ [][NextIndent]_vars

----------------------------------------------------------------------------
(* The two entry points of the provider and the edit list they return. *)

\* how many pieces a document of the editor is made of
MaxPieces == 2

RangePieces == { <<"a","\n">>, <<" ","a">>, <<"<","b",">","\n">>, <<"\n">>, <<"$","{","x","}">> }

RangeDocuments == {Flatten(fs) : fs \in SeqsUpTo(RangePieces, MaxPieces)}

\* spaces, blank lines capped at the default of line 33
RangeOptions ==
    { o \in AllOptions :
        o.insertSpaces /\ o.preserveNewlines /\ o.maxPreserveNewlines = 2 }

\* document.getText(range), with the range as a pair of offsets
GetText(doc, r) == SubSeq(doc, r[1] + 1, r[2])

\* the editor holds a document and no request is running
InitRange ==
    /\ document \in RangeDocuments
    /\ options \in RangeOptions
    /\ pc = "idle"
    /\ range = << 0, 0 >>
    /\ edits = <<>>
    /\ previous = <<>>
    /\ source = <<>>
    /\ pass = 1
    /\ text = <<>>
    /\ preserveMap = <<>>
    /\ counter = 0
    /\ lines = <<>>
    /\ lineNo = 0
    /\ level = 0
    /\ result = <<>>
    /\ restored = 0
    /\ formatted = <<>>
    /\ calls = 1
    /\ JavaIdle
    /\ DiagIdle

\* formatRange up to the call of formatJsp: lines 36-37
FormatRangeCall(r) ==
    /\ range' = r
    /\ source' = GetText(document, r)
    /\ text' = GetText(document, r)
    /\ pc' = "extract"
    /\ UNCHANGED << options, pass, preserveMap, counter, lines, lineNo, level,
                    result, restored, formatted, calls, document, edits,
                    previous, javaVars, diagVars >>

\* lines 5-14: the range from positionAt(0) to positionAt(getText().length)
ProvideDocumentFormattingEdits ==
    /\ pc = "idle"
    /\ FormatRangeCall(<< 0, Len(document) >>)

\* lines 16-22
ProvideDocumentRangeFormattingEdits ==
    /\ pc = "idle"
    /\ \E a \in 0..Len(document) :
         \E b \in a..Len(document) : FormatRangeCall(<< a, b >>)

\* a mutant of Edits: the replacement is returned also when nothing changed
EditsAlways(t, f, r) == << [range |-> r, newText |-> f] >>

\* lines 45-49
Edits(t, f, r) ==
    IF f = t THEN <<>> ELSE << [range |-> r, newText |-> f] >>

\* lines 45-49: formatRange returns
FormatRangeReturn ==
    /\ pc = "done"
    /\ edits' = Edits(source, formatted, range)
    /\ pc' = "returned"
    /\ UNCHANGED << source, options, pass, text, preserveMap, counter, lines,
                    lineNo, level, result, restored, formatted, calls,
                    document, range, previous, javaVars, diagVars >>

NextRange ==
    \/ ProvideDocumentFormattingEdits
    \/ ProvideDocumentRangeFormattingEdits
    \/ Next
    \/ FormatRangeReturn

SpecRange == InitRange /\ [][NextRange]_vars

----------------------------------------------------------------------------
(* formatJsp on malformed text: openers without closers, closers without
   openers, unmatched tags. *)

TotalPieces ==
    { <<"<","%","-","-"," ","a">>, <<" ","-","-","%",">">>, <<"<","%"," ","b",";"," ">>, <<"%",">">>, <<"<","%","@"," ","=","x"," ">>, <<"<","%","="," ","d">>, <<"<","%","!"," ","e","{">>, <<"$","{","c">>,
      <<"}">>, <<"#","{","f">>, <<"<","s","c","r","i","p","t",">">>, <<"<","/","s","c","r","i","p","t",">">>, <<"<","s","t","y","l","e",">">>, <<"<","/","d","i","v",">">>, <<"\n">> }

TotalDocuments == {Flatten(fs) : fs \in SeqsUpTo(TotalPieces, MaxPieces)}

\* the smallest values of the documented domain: tabSize positive,
\* maxPreserveNewlines non-negative
TotalOptions ==
    [ tabSize : {1}, insertSpaces : BOOLEAN, preserveNewlines : BOOLEAN,
      maxPreserveNewlines : {0}, wrapLineLength : {120} ]

InitTotal == \E t \in TotalDocuments, o \in TotalOptions : Start(t, o)

SpecTotal == InitTotal /\ [][Next]_vars

----------------------------------------------------------------------------
(* The content transforms on their own: formatDirective, formatJspBlock and
   formatJavaCode, each applied to one input. *)

\* how many attributes a directive has
MaxAttrs == 3

DirectiveHeads == { <<"<","%","@"," ","p","a","g","e">>, <<"<","%","@"," "," ","t","a","g","l","i","b">>, <<"<","%","@">> }

\* attributes: double-quoted, namespaced, single-quoted
DirectiveAttrs ==
    { <<"c","o","n","t","e","n","t","T","y","p","e","=","\"","t","e","x","t","/","h","t","m","l",";"," ","c","h","a","r","s","e","t","=","U","T","F","-","8","\"">>,
      <<"i","m","p","o","r","t","=","\"","j","a","v","a",".","u","t","i","l",".","L","i","s","t",",","j","a","v","a",".","u","t","i","l",".","M","a","p",",","j","a","v","a",".","i","o",".","F","i","l","e","\"">>,
      <<"t","a","g","s",":","d","i","r","=","\"","/","W","E","B","-","I","N","F","/","t","a","g","s","/","l","a","y","o","u","t","/","c","o","m","p","o","n","e","n","t","s","\"">>,
      <<"e","r","r","o","r","P","a","g","e","=","'","/","W","E","B","-","I","N","F","/","v","i","e","w","s","/","e","r","r","o","r","/","e","r","r","o","r","5","0","0",".","j","s","p","'">> }

\* the white space in front of an attribute: the attributes with a ':' start
\* a new line
AttrGap(a) == IF Includes(a, <<":">>) THEN <<"\n"," "," "," ">> ELSE <<" ">>

RECURSIVE SpacedAttrs(_)
SpacedAttrs(as) ==
    IF Len(as) = 0 THEN <<>>
    ELSE AttrGap(as[1]) \o as[1] \o SpacedAttrs(Tail(as))

\* the directive of scenario A of the specification
ScenarioADirective ==
    <<"<","%","@"," ","p","a","g","e"," ","l","a","n","g","u","a","g","e","=","\"","j","a","v","a","\""," ","c","o","n","t","e","n","t","T","y","p","e","=","\"","t","e","x","t","/","h","t","m","l",";"," ","c","h","a","r","s","e","t","=","U","T","F","-","8","\""," ","p","a","g","e","E","n","c","o","d","i","n","g","=","\"","U","T","F","-","8","\""," ","s","e","s","s","i","o","n","=","\"","t","r","u","e","\""," ","%",">">>

Directives ==
    { h \o SpacedAttrs(as) \o <<" ","%",">">> :
        h \in DirectiveHeads, as \in SeqsUpTo(DirectiveAttrs, MaxAttrs) }
    \cup {ScenarioADirective}

\* the options the transforms are called with
\* how many pieces of code a scripting block has
MaxStatements == 2

BlockOpeners == { <<"<","%">>, <<"<","%","!">> }

\* a statement of 59 characters with one terminator and no brace
LongStatement == <<"o","u","t",".","p","r","i","n","t","l","n","(","r","e","q","u","e","s","t",".","g","e","t","P","a","r","a","m","e","t","e","r","(","\"","n","a","m","e","\"",")",".","t","r","i","m","(",")",".","l","e","n","g","t","h","(",")"," ",")",";">>

\* scenario C, the halves of scenario D, a continuation, nested blocks, an
\* unmatched closer, a line break, a literal that holds an escaped quote and
\* the three characters the passes look for, one more character for the
\* length threshold, a loop with a three-clause header, one whose header
\* holds a call, and a literal that holds dollar signs
BlockPieces ==
    { <<"i","n","t"," ","x"," ","="," ","1",";">>, <<"i","n","t"," ","x","=","1",";"," ">>, <<"i","f","(","x",">","0",")","{"," ","o","u","t",".","p","r","i","n","t","l","n","(","x",")",";"," ","}">>, <<" ","e","l","s","e"," ","{"," ","y","(",")",";"," ","}">>,
      <<"w","h","i","l","e","(","a",")","{"," ","i","f","(","b",")","{"," ","c","(",")",";"," ","}"," ","d","(",")",";"," ","}">>, <<"}">>, <<"\n">>, <<"s"," ","="," ","\"","}",";","\\","\"","{","\"",";">>, <<"y">>,
      <<"f","o","r","(","i","=","0",";","i","<","n",";","i","+","+",")","{"," ","z","(",")",";"," ","}">>, <<"f","o","r","(","i","n","t"," ","i","=","0",";","i","<","l","i","s","t",".","s","i","z","e","(",")",";","i","+","+",")","{"," ","}">>,
      <<"s"," ","="," ","\"","$","$","\"",";">>, LongStatement }

ScenarioDBlock == <<"<","%"," ","i","n","t"," ","x","=","1",";"," ","i","f","(","x",">","0",")","{"," ","o","u","t",".","p","r","i","n","t","l","n","(","x",")",";"," ","}"," ","%",">">>

RECURSIVE Concat(_)
Concat(ss) == IF ss = <<>> THEN <<>> ELSE Head(ss) \o Concat(Tail(ss))

Blocks ==
    { op \o <<" ">> \o Concat(ps) \o <<" ","%",">">> :
        op \in BlockOpeners, ps \in SeqsUpTo(BlockPieces, MaxStatements) }

UnitOptions == { o \in AllOptions : o.preserveNewlines /\ o.maxPreserveNewlines = 2 }

StartUnit(unit, t, o) ==
    /\ source = t
    /\ options = o
    /\ pc = unit
    /\ pass = 1
    /\ text = <<>>
    /\ preserveMap = <<>>
    /\ counter = 0
    /\ lines = <<>>
    /\ lineNo = 0
    /\ level = 0
    /\ result = <<>>
    /\ restored = 0
    /\ formatted = <<>>
    /\ calls = 1
    /\ document = t
    /\ range = << 0, Len(t) >>
    /\ edits = <<>>
    /\ previous = <<>>
    /\ JavaIdle
    /\ DiagIdle

\* preserveMap.set(key, this.formatDirective(match)) of line 88, for one match
FormatDirectiveCall ==
    /\ pc = "directive"
    /\ formatted' = formatDirective(source)
    /\ pc' = "directiveDone"
    /\ UNCHANGED << source, options, pass, text, preserveMap, counter, lines,
                    lineNo, level, result, restored, calls, hostVars, diagVars, javaVars >>

\* formatJspBlock up to its return at line 223 or its call at line 226
FormatJspBlockCall ==
    /\ pc = "block"
    /\ IF IndentThrows(options) THEN Throw
       ELSE /\ IF IsShortBlock(BlockContent(source))
               THEN /\ formatted' = BlockPrefix(source) \o <<" ">>
                                    \o BlockContent(source) \o <<" ","%",">">>
                    /\ pc' = "blockDone"
                    /\ UNCHANGED javaVars
               ELSE /\ code' = BlockContent(source)
                    /\ pc' = "java"
                    /\ UNCHANGED << formatted, stringMap, javaLines,
                                    javaLineNo, javaLevel, javaResult >>
            /\ UNCHANGED << source, options, pass, text, preserveMap, counter,
                            lines, lineNo, level, result, restored, calls,
                            hostVars, diagVars >>

\* formatJavaCode, lines 231-260: the replace passes and the split
FormatJavaBegin ==
    /\ pc = "java"
    /\ LET protected == ProtectStrings(code, 1, [code |-> <<>>, stringMap |-> <<>>])
           broken    == JavaBreakLines(protected.code)
       IN  /\ code' = broken
           /\ stringMap' = protected.stringMap
           /\ javaLines' = SplitLines(broken)
    /\ javaLineNo' = 0
    /\ javaLevel' = 1
    /\ javaResult' = <<>>
    /\ pc' = "javaLine"
    /\ UNCHANGED << source, options, pass, text, preserveMap, counter, lines,
                    lineNo, level, result, restored, formatted, calls, hostVars, diagVars >>

\* one iteration of the loop of lines 262-279
FormatJavaLine ==
    /\ pc = "javaLine"
    /\ javaLineNo < Len(javaLines)
    /\ LET st == JavaLine([level |-> javaLevel, result |-> javaResult],
                          javaLines[javaLineNo + 1], IndentUnit(options))
       IN  /\ javaLevel' = st.level
           /\ javaResult' = st.result
    /\ javaLineNo' = javaLineNo + 1
    /\ UNCHANGED << source, options, pass, text, preserveMap, counter, lines,
                    lineNo, level, result, restored, formatted, calls, hostVars, diagVars,
                    code, stringMap, javaLines, pc >>

\* lines 281-287 of formatJavaCode and the return of formatJspBlock, line 227
FormatJavaReturn ==
    /\ pc = "javaLine"
    /\ javaLineNo = Len(javaLines)
    /\ formatted' = BlockPrefix(source) \o <<"\n">>
                    \o RestoreFrom(JoinLines(javaResult), stringMap, 1)
                    \o <<"\n","%",">">>
    /\ pc' = "blockDone"
    /\ UNCHANGED << source, options, pass, text, preserveMap, counter, lines,
                    lineNo, level, result, restored, calls, hostVars, diagVars, javaVars >>

InitUnits ==
    \E o \in UnitOptions :
        \/ \E t \in Directives : o.insertSpaces /\ StartUnit("directive", t, o)
        \/ \E t \in Blocks \cup {ScenarioDBlock} : StartUnit("block", t, o)

NextUnits ==
    \/ FormatDirectiveCall
    \/ FormatJspBlockCall
    \/ FormatJavaBegin
    \/ FormatJavaLine
    \/ FormatJavaReturn

SpecUnits == InitUnits /\ [][NextUnits]_vars


----------------------------------------------------------------------------
(* The same text formatted with two values of the wrap length. *)

\* markup, text, a scriptlet that is reformatted, a fragment and a line break
WrapPieces ==
    { <<"<","d","i","v",">">>, <<"a"," ","l","i","n","e"," ","o","f"," ","t","e","x","t">>, <<"<","/","d","i","v",">">>, <<"\n">>, <<"<","%"," ","i","f","(","x",")","{"," ","y","(",")",";"," ","}"," ","%",">">>, <<"$","{","x","}">> }

WrapDocuments == {Flatten(fs) : fs \in SeqsUpTo(WrapPieces, MaxPieces)}

\* config.get<number>('format.wrapLineLength', 120): the default and a value below
\* the length of the lines
WrapLengths == {10, 120}

WrapOptions ==
    [ tabSize : {2}, insertSpaces : BOOLEAN, preserveNewlines : {TRUE},
      maxPreserveNewlines : {2}, wrapLineLength : WrapLengths ]

InitWrap == \E t \in WrapDocuments, o \in WrapOptions : Start(t, o)

\* the same text is formatted once more, with another wrapLineLength
FormatOtherWrap ==
    /\ pc = "done"
    /\ calls = 1
    /\ calls' = 2
    /\ \E w \in WrapLengths \ {options.wrapLineLength} :
          options' = [options EXCEPT !.wrapLineLength = w]
    /\ previous' = formatted
    /\ text' = source
    /\ pc' = "extract"
    /\ pass' = 1
    /\ preserveMap' = <<>>
    /\ counter' = 0
    /\ lines' = <<>>
    /\ lineNo' = 0
    /\ level' = 0
    /\ result' = <<>>
    /\ restored' = 0
    /\ formatted' = <<>>
    /\ UNCHANGED << source, document, range, edits, javaVars, diagVars >>

NextWrap ==
    \/ Next
    \/ FormatOtherWrap

SpecWrap == InitWrap /\ [][NextWrap]_vars

----------------------------------------------------------------------------
(* Texts with regions inside regions. *)

\* comments that hold the delimiters of other kinds, one region of each
\* kind, an opener the scriptlet pass must leave alone, and the halves of
\* regions that take other regions in
OrderPieces ==
    { <<"<","%","-","-","$","{","a","}","<","%"," ","b"," ","%",">","-","-","%",">">>, <<"<","%","-","-","<","%","@"," ","c"," ","%",">","-","-","%",">">>, <<"<","%","!"," ","i","n","t"," ","w",";"," ","%",">">>, <<"<","%","="," ","z"," ","%",">">>,
      <<"<","%"," ","y",";"," ","%",">">>, <<"<","%","@"," ","p","a","g","e"," ","%",">">>, <<"<","%","-"," ","v"," ","%",">">>, <<"$","{","e","}">>, <<"#","{","f","}">>, <<"<","s","c","r","i","p","t",">">>,
      <<"<","/","s","c","r","i","p","t",">">>, <<"<","s","t","y","l","e",">">>, <<"<","/","s","t","y","l","e",">">>, <<"<","%"," ","s","(">>, <<")",";"," ","%",">">> }

OrderDocuments == {Flatten(fs) : fs \in SeqsUpTo(OrderPieces, MaxPieces)}

OrderOptions ==
    [ tabSize : {2}, insertSpaces : {TRUE}, preserveNewlines : {TRUE},
      maxPreserveNewlines : {2}, wrapLineLength : {120} ]

InitOrder == \E t \in OrderDocuments, o \in OrderOptions : Start(t, o)

SpecOrder == InitOrder /\ [][Next]_vars

\* ---------------------------------------------------------------------------
\* The diagnostics provider and the event handlers activate registers for it
\* ---------------------------------------------------------------------------

\* the delay of the setTimeout call, in milliseconds
DebounceDelay == 500

\* how many milliseconds pass in one step of the clock
Tick == 100

\* how many timeout handles the host has to give out
MaxHandles == 3

\* the documents of the workspace
WorkspaceDocuments == { "a.jsp", "b.jsp", "n.txt" }

\* document.languageId
LanguageId(d) == IF d = "n.txt" THEN "plaintext" ELSE "jsp"

\* the formatter is not running
FormatterIdle ==
    /\ source = <<>>
    /\ options = [tabSize |-> 4, insertSpaces |-> TRUE]
    /\ pc = "idle"
    /\ pass = 1
    /\ text = <<>>
    /\ preserveMap = <<>>
    /\ counter = 0
    /\ lines = <<>>
    /\ lineNo = 0
    /\ level = 0
    /\ result = <<>>
    /\ restored = 0
    /\ formatted = <<>>
    /\ calls = 0
    /\ document = <<>>
    /\ range = << 0, 0 >>
    /\ edits = <<>>
    /\ previous = <<>>
    /\ JavaIdle

formatterVars == << source, options, pc, pass, text, preserveMap, counter, lines,
                    lineNo, level, result, restored, formatted, calls,
                    hostVars, javaVars >>

ClearTimeoutNone(ts, h) == ts

\* clearTimeout(h): the timeout with that handle no longer runs; a handle
\* whose timeout has run already is left alone
ClearTimeout(ts, h) == { t \in ts : t.handle # h }

\* the handles setTimeout may return: a Timeout object that is new, so
\* neither one of a timeout that is set nor the one the provider still holds
FreshHandles(ts, held) ==
    { h \in 1..MaxHandles : h # held /\ \A t \in ts : t.handle # h }

\* the state after updateDiagnostics(d) in a provider that holds the handle
\* held while the host has the timeouts ts
AfterUpdate(ts, held, d) ==
    LET cleared == IF held # 0 THEN ClearTimeout(ts, held) ELSE ts
        h       == CHOOSE f \in FreshHandles(cleared, held) : TRUE
    IN  [ timers |-> cleared \cup { [handle |-> h, document |-> d,
                                     left |-> DebounceDelay] },
          debounceTimer |-> h ]

\* updateDiagnostics(document)
UpdateDiagnostics(d) ==
    /\ FreshHandles(IF debounceTimer # 0 THEN ClearTimeout(timers, debounceTimer)
                    ELSE timers, debounceTimer) # {}
    /\ timers' = AfterUpdate(timers, debounceTimer, d).timers
    /\ debounceTimer' = AfterUpdate(timers, debounceTimer, d).debounceTimer
    /\ lastDocument' = d
    /\ sinceCall' = 0
    /\ runsSinceCall' = 0
    /\ requested' = requested \cup {d}
    /\ UNCHANGED diagnosticCollection

\* the handler activate registers with onDidOpenTextDocument
OnDidOpenTextDocument ==
    \E d \in WorkspaceDocuments \ openDocuments :
        /\ openDocuments' = openDocuments \cup {d}
        /\ IF LanguageId(d) = "jsp" THEN UpdateDiagnostics(d)
           ELSE UNCHANGED << diagnosticCollection, debounceTimer, timers,
                             lastDocument, sinceCall, runsSinceCall, requested >>
        /\ UNCHANGED formatterVars

\* the handler activate registers with onDidChangeTextDocument
OnDidChangeTextDocument ==
    \E d \in openDocuments :
        /\ IF LanguageId(d) = "jsp" THEN UpdateDiagnostics(d)
           ELSE UNCHANGED << diagnosticCollection, debounceTimer, timers,
                             lastDocument, sinceCall, runsSinceCall, requested >>
        /\ UNCHANGED << openDocuments, formatterVars >>

\* the handler activate registers with onDidCloseTextDocument
OnDidCloseTextDocument ==
    \E d \in openDocuments :
        /\ openDocuments' = openDocuments \ {d}
        /\ diagnosticCollection' = diagnosticCollection \ {d}
        /\ UNCHANGED << debounceTimer, timers, lastDocument, sinceCall,
                        runsSinceCall, requested, formatterVars >>

\* a timeout that is due runs its callback: runDiagnostics(document)
RunDiagnostics ==
    \E t \in timers :
        /\ t.left = 0
        /\ timers' = timers \ {t}
        /\ diagnosticCollection' = diagnosticCollection \cup {t.document}
        /\ runsSinceCall' = IF runsSinceCall < 2 THEN runsSinceCall + 1 ELSE 2
        /\ requested' = requested \ {t.document}
        /\ UNCHANGED << debounceTimer, openDocuments, lastDocument, sinceCall,
                        formatterVars >>

\* Tick milliseconds pass; a timeout that is due runs before more time passes
TimePasses ==
    /\ \A t \in timers : t.left > 0
    /\ lastDocument # NoDocument
    /\ sinceCall < DebounceDelay
    /\ timers' = { [t EXCEPT !.left = IF t.left > Tick THEN t.left - Tick ELSE 0]
                   : t \in timers }
    /\ sinceCall' = IF sinceCall + Tick < DebounceDelay THEN sinceCall + Tick
                    ELSE DebounceDelay
    /\ UNCHANGED << diagnosticCollection, debounceTimer, openDocuments,
                    lastDocument, runsSinceCall, requested, formatterVars >>

\* the state after activate: the documents that are open, and the call of
\* updateDiagnostics for the document of the active editor when it is a JSP
InitDiagnostics ==
    /\ FormatterIdle
    /\ diagnosticCollection = {}
    /\ \E od \in SUBSET WorkspaceDocuments :
       \E active \in od \cup {NoDocument} :
          /\ openDocuments = od
          /\ IF active # NoDocument /\ LanguageId(active) = "jsp"
             THEN /\ timers = AfterUpdate({}, 0, active).timers
                  /\ debounceTimer = AfterUpdate({}, 0, active).debounceTimer
                  /\ lastDocument = active
                  /\ requested = {active}
             ELSE /\ timers = {}
                  /\ debounceTimer = 0
                  /\ lastDocument = NoDocument
                  /\ requested = {}
    /\ sinceCall = 0
    /\ runsSinceCall = 0

NextDiagnostics ==
    \/ OnDidOpenTextDocument
    \/ OnDidChangeTextDocument
    \/ OnDidCloseTextDocument
    \/ RunDiagnostics
    \/ TimePasses

SpecDiagnostics == InitDiagnostics /\ [][NextDiagnostics]_vars
----------------------------------------------------------------------------
(* Properties of formatHtmlStructure, checked under SpecIndent. *)

\* the loop is about to take a line
InLoop == pc = "line" /\ lineNo < Len(lines)

\* the trimmed line the loop takes next
NextLine == Trim(lines[lineNo + 1])

\* the trimmed line of the k-th iteration
LineAt(k) == Trim(lines[k])

\* the k-th line was emitted at depth d
EmittedAt(k, d) == result[k] = Repeat(IndentUnit(options), d) \o LineAt(k)

\* the element name of a tag line
TagName(t) ==
    LET stop == {j \in 2..Len(t) : t[j] \in Whitespace \cup {">", "/"}}
    IN  SubSeq(t, 2, (IF stop = {} THEN Len(t) + 1 ELSE MinOf(stop)) - 1)

\* a line that holds one open tag and nothing else, not closed by '/>'
IsOpenTagLine(t) ==
    /\ Len(t) >= 3
    /\ t[1] = "<"
    /\ t[2] \in Lower \cup Upper
    /\ t[Len(t)] = ">"
    /\ t[Len(t) - 1] # "/"
    /\ CountChar(t, "<") = 1
    /\ CountChar(t, ">") = 1

\* the names the source lists as never opening a scope
VoidElementNames == OpenTagsExcluded \ { <<"/">>, <<"!">> }

\* the names the source lists as block-scoped and nowhere as void
BlockScopedNames == JspBlockTags \ OpenTagsExcluded

IsVoidLine(t) == IsOpenTagLine(t) /\ TagName(t) \in VoidElementNames

IsPlainTextLine(t) == t # <<>> /\ CountChar(t, "<") = 0 /\ CountChar(t, ">") = 0

\* C5: the depth counter of formatHtmlStructure is never negative, and a
\* closing tag met at depth 0 is emitted without indentation and leaves the
\* depth at 0.
DepthNonNegative ==
    /\ [](level >= 0)
    /\ [][ (InLoop /\ level = 0 /\ IsClosingLine(NextLine))
             => (level' = 0 /\ result'[lineNo + 1] = NextLine) ]_vars

\* C5 witness: two or more closing tags and nothing before them have been
\* emitted, the last one without indentation, and the depth is 0.
UnmatchedClosingAtZero ==
    /\ pc = "line"
    /\ lineNo >= 2
    /\ \A k \in 1..lineNo : IsClosingLine(LineAt(k))
    /\ result[lineNo] = LineAt(lineNo)
    /\ level = 0

\* C6: a line that is only the open tag of a void element leaves the depth as
\* it was.
VoidTagNonNesting ==
    [][ (InLoop /\ IsVoidLine(NextLine)) => level' = level ]_vars

\* C7: a line that is only the open tag of an element outside the void set
\* increases the depth by exactly one.
GenericOpeningRule ==
    [][ (InLoop /\ IsOpenTagLine(NextLine)
                /\ TagName(NextLine) \notin VoidElementNames)
          => level' = level + 1 ]_vars

----------------------------------------------------------------------------
(* Properties of formatJsp, checked under Spec and SpecTwice. *)

\* the stored content of the i-th entry is the matched text itself
IsVerbatimEntry(i) ==
    \E kind \in {"EL", "DEL", "SCRIPT", "STYLE"} :
        StartsWithAt(preserveMap[i].key, 1, <<"_","_">> \o KindName(kind) \o <<"_">>)

\* the text holds nothing that looks like a placeholder token
NoTokenText(s) == ~ Includes(s, <<"_","_">>)

\* C1: formatting the formatted text once more returns it unchanged.
Idempotence == (pc = "done" /\ calls = 2) => formatted = source

\* C2: the text of every EL fragment and of every script and style body is a
\* contiguous part of the returned text (stated for documents that hold no
\* token-like text and for regions that hold no other region).
RegionSafety ==
    (pc = "done" /\ NoTokenText(source))
        => \A i \in 1..Len(preserveMap) :
              (IsVerbatimEntry(i) /\ NoTokenText(preserveMap[i].value))
                  => Includes(formatted, preserveMap[i].value)

\* C3: the returned text holds no placeholder token (stated for documents
\* that hold no token-like text themselves).
AllPlaceholdersRestored ==
    (pc = "done" /\ NoTokenText(source))
        => \A i \in 1..Len(preserveMap) : ~ Includes(formatted, preserveMap[i].key)

\* C4: no placeholder token equals a string that occurs in the document.
PlaceholdersUnique ==
    \A i \in 1..Len(preserveMap) : ~ Includes(source, preserveMap[i].key)

\* C9: the returned text ends with one newline and no other whitespace
\* before it (stated for the documents that are not empty).
EndsWithOneNewline ==
    (pc = "done" /\ source # <<>>)
        => /\ Len(formatted) >= 1
           /\ formatted[Len(formatted)] = "\n"
           /\ Len(formatted) >= 2 => formatted[Len(formatted) - 1] \notin Whitespace

\* the lines k .. k+n-1 of ls are blank and a line with content follows
BlankRunBefore(ls, k, n) ==
    /\ k + n <= Len(ls)
    /\ \A j \in k..(k + n - 1) : Trim(ls[j]) = <<>>
    /\ \E j \in (k + n)..Len(ls) : Trim(ls[j]) # <<>>

\* C10: with preserveNewlines and maxPreserveNewlines = N the returned text
\* has no run of more than N blank lines (stated for the runs that a line
\* with content follows).
BlankLineCap ==
    (pc = "done" /\ options.preserveNewlines)
        => LET ls == SplitLines(formatted)
           IN  ~ \E k \in 1..Len(ls) :
                     BlankRunBefore(ls, k, options.maxPreserveNewlines + 1)

----------------------------------------------------------------------------
(* Claims about the entry points. *)

\* C11: formatRange returns the empty edit list exactly when the formatted
\* text equals the text of the requested range, and otherwise exactly one
\* replace edit that covers the requested range and carries the formatted
\* text; the whole-document entry point requests the whole document.
NoOpSignalling ==
    pc = "returned"
    => /\ edits = <<>> <=> formatted = GetText(document, range)
       /\ edits # <<>>
          => /\ Len(edits) = 1
             /\ edits[1].range = range
             /\ edits[1].newText = formatted
             /\ formatted = formatJsp(GetText(document, range), options)

\* C11 witness: a proper part of a document was requested, it was already
\* formatted, and no edit was returned
NoEditForFormattedRange ==
    /\ pc = "returned"
    /\ edits = <<>>
    /\ range # << 0, Len(document) >>
    /\ range[2] - range[1] >= 2

\* the statement formatJsp is at, in the order of the source
Phase ==
    CASE pc = "extract" -> 1
      [] pc = "html"    -> 2
      [] pc = "line"    -> 3
      [] pc = "restore" -> 4
      [] pc = "end"     -> 5
      [] OTHER          -> 6

\* how many iterations the loop formatJsp is in has left
Remaining ==
    CASE pc = "extract" -> Len(Passes) + 1 - pass
      [] pc = "line"    -> Len(lines) - lineNo
      [] pc = "restore" -> Len(preserveMap) - restored
      [] OTHER          -> 0

\* C12: for every text, malformed or not, and every FormatOptions of the
\* documented domain, formatJsp throws nothing (no exception is raised and no
\* repeat count is negative) and returns: until it has returned it can take
\* a step, and every step either moves on to a later statement or leaves the
\* loop it is in with fewer iterations to go.
Totality ==
    /\ [](/\ pc # "threw"
          /\ ~ RepeatThrows(level)
          /\ Remaining >= 0
          /\ pc # "done" => pc \in {"extract", "html", "line", "restore", "end"})
    /\ [][ \/ Phase' > Phase
           \/ Phase' = Phase /\ Remaining' < Remaining ]_vars

\* C12 witness: a text with an opener that is never closed and an unmatched
\* closing tag has been formatted
MalformedTextFormatted ==
    /\ pc = "done"
    /\ Includes(source, <<"<","%">>)
    /\ ~ Includes(source, <<"%",">">>)
    /\ Includes(source, <<"<","/","d","i","v",">">>)
    /\ formatted # <<>>

----------------------------------------------------------------------------
(* Claims about formatDirective. *)

\* the directive given to formatDirective, with its white space collapsed
Collapsed == Trim(CollapseWhitespace(source))

\* '<%@' plus the directive name
DirectiveOpener(content) ==
    SubSeq(content, 1, WordEnd(content, SkipWhitespace(content, 4)) - 1)

\* the directive has a name after '<%@', and white space after the name
HasDirectiveName(content) ==
    LET nameAt  == SkipWhitespace(content, 4)
        nameEnd == WordEnd(content, nameAt)
    IN  /\ nameEnd > nameAt
        /\ nameEnd <= Len(content) - 2
        /\ content[nameEnd] \in Whitespace

\* the opener alone on the first line, then one pair per line, indented by
\* four spaces, with ' %>' appended to the last one
MultiLineForm(content) ==
    LET pairs == AttrPairs(content, 1)
    IN  JoinLines(<<DirectiveOpener(content)>>
                  \o [i \in 1..Len(pairs) |->
                        <<" "," "," "," ">> \o pairs[i]
                        \o (IF i = Len(pairs) THEN <<" ","%",">">> ELSE <<>>)])

\* C13: the result of formatDirective is the whitespace-collapsed directive on
\* a single line if that text has at most 120 characters or at most one
\* attribute pair, and otherwise the multi-line form.
DirectiveLayout ==
    pc = "directiveDone"
    => LET content == Collapsed
       IN  IF Len(content) <= 120 \/ Len(AttrPairs(content, 1)) <= 1
           THEN formatted = content
           ELSE formatted = MultiLineForm(content)

\* C13 as amended: the single-line form is also the result when no directive
\* name followed by white space stands after '<%@'.
DirectiveLayoutNamed ==
    pc = "directiveDone"
    => LET content == Collapsed
       IN  IF \/ Len(content) <= 120
              \/ Len(AttrPairs(content, 1)) <= 1
              \/ ~ HasDirectiveName(content)
           THEN formatted = content
           ELSE formatted = MultiLineForm(content)

\* C13 witness: a directive of more than 120 characters with three pairs was
\* laid out on four lines
LongDirectiveLaidOut ==
    /\ pc = "directiveDone"
    /\ Len(Collapsed) > 120
    /\ Len(AttrPairs(Collapsed, 1)) = 3
    /\ Len(SplitLines(formatted)) = 4

\* C14: the directive of scenario A is laid out on five lines: the opener
\* '<%@ page', then its four attributes, each indented, with the closer
\* appended to the last one.
ScenarioA ==
    (pc = "directiveDone" /\ source = ScenarioADirective)
    => formatted = JoinLines(<< <<"<","%","@"," ","p","a","g","e">>,
                                <<" "," "," "," ","l","a","n","g","u","a","g","e","=","\"","j","a","v","a","\"">>,
                                <<" "," "," "," ","c","o","n","t","e","n","t","T","y","p","e","=","\"","t","e","x","t","/","h","t","m","l",";"," ","c","h","a","r","s","e","t","=","U","T","F","-","8","\"">>,
                                <<" "," "," "," ","p","a","g","e","E","n","c","o","d","i","n","g","=","\"","U","T","F","-","8","\"">>,
                                <<" "," "," "," ","s","e","s","s","i","o","n","=","\"","t","r","u","e","\""," ","%",">">> >>)

\* the attributes that are not written name="value"
MalformedAttrs == {a \in DirectiveAttrs : AttrPairs(a, 1) = <<>>}

\* C15: a directive of more than 120 characters that holds an attribute not
\* written name="value" is returned as its collapsed content, unchanged; and
\* in every case every attribute of the directive is in the result.
FailSoftDirective ==
    pc = "directiveDone"
    => /\ (/\ Len(Collapsed) > 120
           /\ \E a \in MalformedAttrs : Includes(source, a))
          => formatted = Collapsed
       /\ \A a \in DirectiveAttrs : Includes(source, a) => Includes(formatted, a)


----------------------------------------------------------------------------
(* formatJspBlock and formatJavaCode *)

\* the steps of the block transform return what the transform returns
BlockStepsAgree ==
    pc = "blockDone" => formatted = formatJspBlock(source, options)

\* the delimiter a block opens with and the text between its delimiters
OpeningDelimiter == IF source[3] = "!" THEN <<"<","%","!">> ELSE <<"<","%">>

InnerContent ==
    Trim(SubSeq(source, Len(OpeningDelimiter) + 1, Len(source) - 2))

\* the four conditions of the short form, each on its own
NoLineBreak == \A i \in 1..Len(InnerContent) : InnerContent[i] # "\n"

UnderSixty == Len(InnerContent) <= 59

NoOpenBrace == \A i \in 1..Len(InnerContent) : InnerContent[i] # "{"

AtMostOneTerminator ==
    Cardinality({i \in 1..Len(InnerContent) : InnerContent[i] = ";"}) <= 1

\* C16: a block whose trimmed content has no line break, fewer than 60
\* characters, no '{' and at most one ';' is returned on one line as the
\* opening delimiter, a space, the content, a space and '%>', and
\* formatJavaCode is not called; a block that fails one of the four conditions
\* is passed to formatJavaCode, and the result is the delimiter on a line, the
\* lines of formatJavaCode, and '%>' on a line.
ShortCircuit ==
    pc = "blockDone"
    => IF NoLineBreak /\ UnderSixty /\ NoOpenBrace /\ AtMostOneTerminator
       THEN /\ formatted = OpeningDelimiter \o <<" ">> \o InnerContent \o <<" ","%",">">>
            /\ JavaIdle
       ELSE /\ javaLines # <<>>
            /\ javaLineNo = Len(javaLines)
            /\ formatted = OpeningDelimiter \o <<"\n">>
                           \o formatJavaCode(InnerContent, IndentUnit(options))
                           \o <<"\n","%",">">>
            /\ Len(SplitLines(formatted)) >= 3

\* C16 witness: a statement of 59 characters was kept on one line, between
\* the delimiters
LongestShortBlockKept ==
    /\ pc = "blockDone"
    /\ Len(InnerContent) = 59
    /\ NoLineBreak /\ NoOpenBrace /\ AtMostOneTerminator
    /\ formatted = OpeningDelimiter \o <<" ">> \o InnerContent \o <<" ","%",">">>

\* a block of 60 characters that meets the other three conditions took the
\* multi-line form
SixtyCharactersSplit ==
    /\ pc = "blockDone"
    /\ Len(InnerContent) = 60
    /\ NoLineBreak /\ NoOpenBrace /\ AtMostOneTerminator
    /\ Len(SplitLines(formatted)) >= 3

\* the lines of formatJavaCode before the literals are put back, so that a
\* literal counts as one word and not as the characters it holds
JavaDone == pc = "blockDone" /\ javaLines # <<>>

\* the lines of the result, trimmed
CodeLines == [k \in 1..Len(javaResult) |-> Trim(javaResult[k])]

OpensBlock(cl, k) == cl[k] # <<>> /\ cl[k][Len(cl[k])] = "{"

ClosesBlock(cl, k) == cl[k] # <<>> /\ cl[k][1] = "}"

\* the white space a line starts with
Lead(cl, k) == Len(javaResult[k]) - Len(cl[k])

\* position i of t is inside the parentheses of a for header
InForHeader(t, i) ==
    \E b \in 1..(i - 1) :
        /\ StartsWithAt(t, b, <<"f","o","r">>)
        /\ \E p \in (b + 3)..(i - 1) :
              /\ t[p] = "("
              /\ \A q \in (b + 3)..(p - 1) : t[q] \in Whitespace
              /\ \A q \in (p + 1)..i : t[q] # ")"

\* the line that closes the block line k opens, 0 if none does: j is the line
\* looked at and d the number of blocks open before it
RECURSIVE ClosingLine(_, _, _)
ClosingLine(cl, j, d) ==
    IF j > Len(cl) THEN 0
    ELSE IF ClosesBlock(cl, j) /\ d = 1 THEN j
    ELSE ClosingLine(cl, j + 1, d - (IF ClosesBlock(cl, j) THEN 1 ELSE 0)
                                  + (IF OpensBlock(cl, j) THEN 1 ELSE 0))

MatchingLine(cl, k) == ClosingLine(cl, k + 1, 1)

\* the lines of the body of the block line k opens that are in no inner
\* block: j is the line looked at, d the number of blocks open before it and
\* m the line that closes the block
RECURSIVE BodyLines(_, _, _, _)
BodyLines(cl, j, d, m) ==
    IF j >= m THEN {}
    ELSE LET before == d - (IF ClosesBlock(cl, j) THEN 1 ELSE 0)
         IN  (IF before = 1 /\ cl[j] # <<>> /\ ~ ClosesBlock(cl, j) THEN {j} ELSE {})
             \cup BodyLines(cl, j + 1,
                            before + (IF OpensBlock(cl, j) THEN 1 ELSE 0), m)

\* every ';' outside a for header and every '{' ends its line
BreaksAfter(cl) ==
    \A k \in 1..Len(cl) :
        \A i \in 1..Len(cl[k]) :
            /\ (cl[k][i] = ";" /\ ~ InForHeader(cl[k], i)) => i = Len(cl[k])
            /\ cl[k][i] = "{" => i = Len(cl[k])

\* the body of a block is one unit deeper than the line that opens it, and
\* the line that closes it is as deep as the line that opens it
BlockIndentation(cl) ==
    \A k \in 1..Len(cl) :
        OpensBlock(cl, k)
        => LET m == MatchingLine(cl, k)
           IN  m # 0
               => /\ Lead(cl, m) = Lead(cl, k)
                  /\ \A j \in BodyLines(cl, k + 1, 1, m) :
                        Lead(cl, j) = Lead(cl, k) + Len(IndentUnit(options))

ScenarioD ==
    source = ScenarioDBlock
    => formatted = JoinLines(<< <<"<","%">>,
                                IndentUnit(options) \o <<"i","n","t"," ","x","=","1",";">>,
                                IndentUnit(options) \o <<"i","f","(","x",">","0",")","{">>,
                                IndentUnit(options) \o IndentUnit(options)
                                    \o <<"o","u","t",".","p","r","i","n","t","l","n","(","x",")",";">>,
                                IndentUnit(options) \o <<"}">>,
                                <<>>,
                                <<"%",">">> >>)

\* C17: in the output of formatJavaCode each statement, each line ending in
\* '{' and each '}' is on its own line; the body of a block is indented one
\* unit deeper than the line that opens it and the matching '}' line as that
\* line; scenario D has the body one level deeper than the if line and the
\* closing brace at the if line's depth.
OwnLines ==
    JavaDone
    => LET cl == CodeLines
       IN  /\ BreaksAfter(cl)
           /\ \A k \in 1..Len(cl) :
                 \A i \in 1..Len(cl[k]) : cl[k][i] = "}" => cl[k] = <<"}">>
           /\ BlockIndentation(cl)
           /\ ScenarioD

\* C17 as amended: a '}' starts its line, and is alone on it unless else,
\* catch or finally follows it.
OwnLinesButContinuation ==
    JavaDone
    => LET cl == CodeLines
       IN  /\ BreaksAfter(cl)
           /\ \A k \in 1..Len(cl) :
                 \A i \in 1..Len(cl[k]) :
                     cl[k][i] = "}"
                     => /\ i = 1
                        /\ \/ cl[k] = <<"}">>
                           \/ \E kw \in {<<"e","l","s","e">>, <<"c","a","t","c","h">>, <<"f","i","n","a","l","l","y">>} :
                                 StartsWithAt(cl[k], SkipWhitespace(cl[k], 2), kw)
           /\ BlockIndentation(cl)
           /\ ScenarioD

\* C17 witness: scenario D was formatted, its body two units deep between the
\* if line and the closing brace, both one unit deep
ScenarioDFormatted ==
    /\ JavaDone
    /\ source = ScenarioDBlock
    /\ OpensBlock(CodeLines, 2) /\ MatchingLine(CodeLines, 2) = 4
    /\ BodyLines(CodeLines, 3, 1, 4) = {3}
    /\ Lead(CodeLines, 3) = 2 * Len(IndentUnit(options))

----------------------------------------------------------------------------
(* Unterminated regions *)

\* how each kind of region opens and closes
OpenerOf(kind) ==
    CASE kind = "JSP_COMMENT" -> <<"<","%","-","-">>
      [] kind = "JSP_DECL"    -> <<"<","%","!">>
      [] kind = "JSP_EXPR"    -> <<"<","%","=">>
      [] kind = "JSP_SCRIPT"  -> <<"<","%">>
      [] kind = "JSP_DIR"     -> <<"<","%","@">>
      [] kind = "EL"          -> <<"$","{">>
      [] kind = "DEL"         -> <<"#","{">>
      [] kind = "SCRIPT"      -> <<"<","s","c","r","i","p","t">>
      [] OTHER                -> <<"<","s","t","y","l","e">>

CloserOf(kind) ==
    CASE kind = "JSP_COMMENT" -> <<"-","-","%",">">>
      [] kind \in {"JSP_DECL", "JSP_EXPR", "JSP_SCRIPT", "JSP_DIR"} -> <<"%",">">>
      [] kind \in {"EL", "DEL"} -> <<"}">>
      [] kind = "SCRIPT"      -> <<"<","/","s","c","r","i","p","t",">">>
      [] OTHER                -> <<"<","/","s","t","y","l","e",">">>

Kinds == {Passes[p] : p \in 1..Len(Passes)}

\* an opener of the kind stands at position i of the text, low being the
\* text in lower case
OpenerAt(low, kind, i) ==
    /\ StartsWithAt(low, i, OpenerOf(kind))
    /\ kind = "JSP_SCRIPT"
       => ~ (i + 2 <= Len(low) /\ low[i + 2] \in {"=", "!", "@", "-"})

\* the first closer of the kind after the opener at i, 0 if there is none
CloserAfter(low, kind, i) ==
    IndexOfFrom(low, CloserOf(kind), i + Len(OpenerOf(kind)))

Unterminated(low, kind, i) ==
    OpenerAt(low, kind, i) /\ CloserAfter(low, kind, i) = 0

\* where the openers of the kind that have a closer after them stand
TerminatedAt(low, kind) ==
    {i \in 1..Len(low) : OpenerAt(low, kind, i) /\ CloserAfter(low, kind, i) # 0}

\* the placeholders allocated for the kind
KeysOf(kind) ==
    {n \in 1..Len(preserveMap) :
        StartsWithAt(preserveMap[n].key, 1, <<"_","_">> \o KindName(kind) \o <<"_">>)}

\* the last position at which a region that closes can end, 0 if no region
\* closes
LastCloser(low) ==
    LET at == UNION {{CloserAfter(low, kind, i) : i \in TerminatedAt(low, kind)} :
                       kind \in Kinds}
    IN  IF at = {} THEN 0 ELSE CHOOSE c \in at : \A d \in at : d <= c

\* the lines of s that are not blank, trimmed
CodeLinesOf(s) ==
    LET ls == SplitLines(s)
    IN  SelectSeq([k \in 1..Len(ls) |-> Trim(ls[k])], LAMBDA l : l # <<>>)

EndsWith(s, t) ==
    Len(t) <= Len(s) /\ SubSeq(s, Len(s) - Len(t) + 1, Len(s)) = t

\* the text of the source from i on is the end of the lines ol, line by
\* line, but for the white space around the lines and the blank lines
LiteralTail(ol, i) ==
    LET sl  == CodeLinesOf(SubSeq(source, i, Len(source)))
        off == Len(ol) - Len(sl)
    IN  /\ off >= 0
        /\ EndsWith(ol[off + 1], sl[1])
        /\ \A k \in 2..Len(sl) : ol[off + k] = sl[k]

\* C18: a region opener with no matching closer after it gets no placeholder
\* and no content transform (once the passes are over, a kind has no more
\* placeholders than openers with a closer after them), and when no region
\* that closes reaches as far as the opener, the text from the opener on
\* reaches the output as literal text, changed only by the trimming and the
\* re-indentation of its lines.
UnterminatedLeftLiteral ==
    /\ pc = "html"
       => LET low == ToLower(source)
          IN  \A kind \in Kinds :
                 Cardinality(KeysOf(kind)) <= Cardinality(TerminatedAt(low, kind))
    /\ pc = "done"
       => LET low == ToLower(source)
              ol  == CodeLinesOf(formatted)
          IN  \A i \in (LastCloser(low) + 1)..Len(source) :
                 (\E kind \in Kinds : Unterminated(low, kind, i))
                 => LiteralTail(ol, i)

\* C18 witness: a text was formatted in which an opener stands after the
\* closer of its kind and before none, and no placeholder was allocated
UnterminatedOpenerFormatted ==
    /\ pc = "done"
    /\ preserveMap = <<>>
    /\ \E kind \in Kinds : \E i \in 2..Len(source) :
          /\ Unterminated(ToLower(source), kind, i)
          /\ EndsWith(SubSeq(source, 1, i - 1), CloserOf(kind))
          /\ LiteralTail(CodeLinesOf(formatted), i)

----------------------------------------------------------------------------
(* The wrap length *)

----------------------------------------------------------------------------
(* The order of the extraction passes *)

\* the names the tokens carry, in the order the passes are said to run
TokenNames ==
    << <<"J","S","P","_","C","O","M","M","E","N","T">>, <<"J","S","P","_","D","E","C","L">>, <<"J","S","P","_","E","X","P","R">>, <<"J","S","P","_","S","C","R","I","P","T">>, <<"J","S","P","_","D","I","R">>, <<"E","L">>,
       <<"D","E","L">>, <<"S","C","R","I","P","T">>, <<"S","T","Y","L","E">> >>

\* the pass a token is of, 0 if the text is no token
OrderOf(key) ==
    LET ps == {p \in 1..Len(TokenNames) :
                  StartsWithAt(key, 1, <<"_","_">> \o TokenNames[p] \o <<"_">>)}
    IN  IF ps = {} THEN 0 ELSE CHOOSE p \in ps : TRUE

\* the text after the scriptlet pass, told from the text before it: a
\* scriptlet starts at '<%' not followed by '=', '!', '@' or '-' and ends at
\* the first '%>' after these two characters; n is the number of the next
\* token
RECURSIVE TokenizeScriptlets(_, _, _)
TokenizeScriptlets(s, i, n) ==
    LET at == {j \in i..(Len(s) - 1) :
                  /\ s[j] = "<" /\ s[j + 1] = "%"
                  /\ ~ (j + 2 <= Len(s) /\ s[j + 2] \in {"=", "!", "@", "-"})
                  /\ IndexOfFrom(s, <<"%",">">>, j + 2) # 0}
    IN  IF at = {} THEN SubSeq(s, i, Len(s))
        ELSE SubSeq(s, i, MinOf(at) - 1)
             \o <<"_","_","J","S","P","_","S","C","R","I","P","T","_">> \o NumToStr(n) \o <<"_","_">>
             \o TokenizeScriptlets(s, IndexOfFrom(s, <<"%",">">>, MinOf(at) + 2) + 2, n + 1)

\* C20: the passes run in the order comment, declaration, expression,
\* scriptlet, directive, ${} fragment, #{} fragment, script body, style body
\* (each pass allocates the tokens of its kind only, numbered on); a region
\* that was replaced by its token is matched by no later pass: no stored
\* content holds a token of its own or of a later pass, and a stored comment
\* holds no token at all and is text of the document, delimiters of other
\* kinds included; the scriptlet pass replaces exactly the regions that start
\* with '<%' not followed by '=', '!', '@' or '-'.
ExtractionOrder ==
    /\ [](/\ \A n \in 1..Len(preserveMap) :
               /\ OrderOf(preserveMap[n].key) # 0
               /\ preserveMap[n].key
                    = <<"_","_">> \o TokenNames[OrderOf(preserveMap[n].key)] \o <<"_">>
                      \o NumToStr(n - 1) \o <<"_","_">>
               /\ \A m \in 1..Len(preserveMap) :
                     Includes(preserveMap[n].value, preserveMap[m].key)
                     => OrderOf(preserveMap[m].key) < OrderOf(preserveMap[n].key)
               /\ OrderOf(preserveMap[n].key) = 1
                  => Includes(source, Trim(SubSeq(preserveMap[n].value, 5,
                                            Len(preserveMap[n].value) - 4))))
    /\ [][ pc = "extract"
           => /\ pass' = pass + 1
              /\ \A n \in (Len(preserveMap) + 1)..Len(preserveMap') :
                    OrderOf(preserveMap'[n].key) = pass
              /\ pass = 4 => text' = TokenizeScriptlets(text, 1, counter) ]_vars

\* C20 witness: a comment that holds an EL fragment and a scriptlet was
\* stored whole under the first token, and a region after it under the second
CommentStoredWhole ==
    /\ pc = "html"
    /\ Len(preserveMap) = 2
    /\ OrderOf(preserveMap[1].key) = 1
    /\ Includes(preserveMap[1].value, <<"$","{","a","}">>)
    /\ Includes(preserveMap[1].value, <<"<","%"," ","b"," ","%",">">>)
    /\ OrderOf(preserveMap[2].key) > 1

----------------------------------------------------------------------------
(* The for header, the string literals and the continuation keywords *)

\* the position of the ')' that closes the '(' before position i of t, d
\* being the number of '(' open at i; 0 if the line ends first
RECURSIVE ClosingParen(_, _, _)
ClosingParen(t, i, d) ==
    IF i > Len(t) THEN 0
    ELSE IF t[i] = ")" /\ d = 1 THEN i
    ELSE ClosingParen(t, i + 1, d + (IF t[i] = "(" THEN 1 ELSE 0)
                                  - (IF t[i] = ")" THEN 1 ELSE 0))

\* where the '(' of a for header stands in t, for the headers of t
ForParens(t) ==
    {p \in 1..Len(t) :
        /\ t[p] = "("
        /\ \E b \in 1..(p - 3) :
              /\ StartsWithAt(t, b, <<"f","o","r">>)
              /\ \A q \in (b + 3)..(p - 1) : t[q] \in Whitespace}

\* C21: the header of a three-clause for statement, from 'for' to its closing
\* parenthesis, is on one line of the output of formatJavaCode, and each of
\* its two ';' is followed by a single space; also when a clause of the header
\* holds parentheses.
ForHeaderOnOneLine ==
    JavaDone
    => LET cl == CodeLines
       IN  \A k \in 1..Len(cl) : \A p \in ForParens(cl[k]) :
              LET e == ClosingParen(cl[k], p + 1, 1)
              IN  /\ e # 0
                  /\ Cardinality({q \in p..e : cl[k][q] = ";"}) = 2
                  /\ \A q \in p..e :
                        cl[k][q] = ";"
                        => cl[k][q + 1] = " " /\ cl[k][q + 2] \notin Whitespace

\* where the literal that opens at the quote before position i of s closes:
\* a backslash takes the character after it along; 0 if it does not close
RECURSIVE LiteralEnd(_, _)
LiteralEnd(s, i) ==
    IF i > Len(s) THEN 0
    ELSE IF s[i] = "\"" THEN i
    ELSE IF s[i] = "\\" THEN (IF i + 1 > Len(s) THEN 0 ELSE LiteralEnd(s, i + 2))
    ELSE LiteralEnd(s, i + 1)

\* the double-quoted literals of s from position i on, in their order
RECURSIVE LiteralsOf(_, _)
LiteralsOf(s, i) ==
    LET at == {j \in i..Len(s) : s[j] = "\"" /\ LiteralEnd(s, j + 1) # 0}
    IN  IF at = {} THEN <<>>
        ELSE <<SubSeq(s, MinOf(at), LiteralEnd(s, MinOf(at) + 1))>>
             \o LiteralsOf(s, LiteralEnd(s, MinOf(at) + 1) + 1)

\* C22: every double-quoted literal of the code of a block is in the output
\* of formatJavaCode character for character (the literals of the output are
\* those of the input, in their order), with no line break inside it also
\* when it holds ';', '{' or '}', and no __STR_n__ token is left.
LiteralsProtected ==
    JavaDone
    => /\ LiteralsOf(formatted, 1) = LiteralsOf(InnerContent, 1)
       /\ ~ Includes(formatted, <<"_","_","S","T","R","_">>)

\* s with every double-quoted literal cut down to its two quotes
RECURSIVE MaskLiterals(_, _)
MaskLiterals(s, i) ==
    LET at == {j \in i..Len(s) : s[j] = "\"" /\ LiteralEnd(s, j + 1) # 0}
    IN  IF at = {} THEN SubSeq(s, i, Len(s))
        ELSE SubSeq(s, i, MinOf(at)) \o <<"\"">>
             \o MaskLiterals(s, LiteralEnd(s, MinOf(at) + 1) + 1)

Continuations == {<<"e","l","s","e">>, <<"c","a","t","c","h">>, <<"f","i","n","a","l","l","y">>}

\* a continuation keyword stands after position i of t, white space of the
\* set ws skipped
KeywordAfter(t, i, ws) ==
    \E j \in (i + 1)..(Len(t) + 1) :
        /\ \A q \in (i + 1)..(j - 1) : t[q] \in ws
        /\ \E kw \in Continuations : StartsWithAt(t, j, kw)

\* the lines of the form '} else {'
ContinuationLines(cl) ==
    {k \in 1..Len(cl) :
        ClosesBlock(cl, k) /\ OpensBlock(cl, k) /\ KeywordAfter(cl[k], 1, Whitespace)}

\* C23: a '}' is followed by a line break unless else, catch or finally
\* follows it after optional white space (then the keyword stays on the line
\* of the '}', for every '}' of the code that has the keyword after it on its
\* line) or a line break follows it already; a line of the form '} else {'
\* is indented as the line that opened the block it closes, and the lines of
\* the else body are one unit deeper.
ContinuationKept ==
    JavaDone
    => LET cl   == CodeLines
           code0 == MaskLiterals(InnerContent, 1)
       IN  /\ \A k \in 1..Len(cl) : \A i \in 1..(Len(cl[k]) - 1) :
                 cl[k][i] = "}" => KeywordAfter(cl[k], i, Whitespace)
           /\ Cardinality({i \in 1..Len(code0) :
                              code0[i] = "}" /\ KeywordAfter(code0, i, {" ", "\t"})})
              = Cardinality({kp \in (1..Len(cl)) \X (1..Len(code0)) :
                              /\ kp[2] < Len(cl[kp[1]])
                              /\ cl[kp[1]][kp[2]] = "}"})
           /\ \A k \in ContinuationLines(cl) :
                 /\ \A o \in 1..(k - 1) :
                       (OpensBlock(cl, o) /\ MatchingLine(cl, o) = k)
                       => Lead(cl, k) = Lead(cl, o)
                 /\ \A j \in BodyLines(cl, k + 1, 1,
                                      IF MatchingLine(cl, k) = 0 THEN Len(cl) + 1
                                      ELSE MatchingLine(cl, k)) :
                       Lead(cl, j) = Lead(cl, k) + Len(IndentUnit(options))

\* C23 witness: an if block and its else were formatted: the line '} else {'
\* closes the block the if line opens, and the else body is one unit deeper
ElseOnClosingLine ==
    /\ JavaDone
    /\ \E k \in ContinuationLines(CodeLines) :
          /\ \E o \in 1..(k - 1) :
                OpensBlock(CodeLines, o) /\ MatchingLine(CodeLines, o) = k
          /\ BodyLines(CodeLines, k + 1, 1, MatchingLine(CodeLines, k)) # {}

----------------------------------------------------------------------------
(* The depth counter of formatJavaCode *)

\* C30: the counter of the indentation loop of formatJavaCode starts at 1 and
\* is at least 1 in every state, whatever the number of unmatched '}' lines;
\* every line of the body that is not blank starts with one indentation unit
\* at least; and the steps of formatJavaCode leave the depth counter of
\* formatHtmlStructure as it is.
JavaLevelAtLeastOne ==
    /\ [](/\ javaLevel >= 1
          /\ (pc = "javaLine" /\ javaLineNo = 0) => javaLevel = 1
          /\ \A k \in 1..Len(javaResult) :
                javaResult[k] # <<>>
                => /\ Len(javaResult[k]) > Len(IndentUnit(options))
                   /\ SubSeq(javaResult[k], 1, Len(IndentUnit(options)))
                        = IndentUnit(options))
    /\ [][level' = level]_vars

\* C30 witness: a '}' line with no block open went through the loop, was
\* emitted one unit deep, and the counter is 1
UnmatchedCloserAtOne ==
    /\ pc = "javaLine"
    /\ javaLineNo = 2
    /\ javaResult = << <<>>, IndentUnit(options) \o <<"}">> >>
    /\ javaLevel = 1

----------------------------------------------------------------------------
(* More properties of formatHtmlStructure, checked under SpecIndent. *)

\* the line the loop takes next holds white space only
NextLineBlank == \A i \in 1..Len(lines[lineNo + 1]) : lines[lineNo + 1][i] \in Whitespace

\* a line that holds one tag closed by '/>' and nothing else
IsSelfClosingLine(t) ==
    /\ Len(t) >= 4
    /\ t[1] = "<"
    /\ t[2] \in Lower \cup Upper
    /\ t[Len(t) - 1] = "/"
    /\ t[Len(t)] = ">"
    /\ CountChar(t, "<") = 1
    /\ CountChar(t, ">") = 1

\* C24: a blank or whitespace-only line is emitted as the empty string and
\* leaves the depth as it is; a self-closing tag line and a plain-text line
\* are emitted at the current depth and leave the depth as it is.
DepthFrame ==
    [][ InLoop
        => /\ NextLineBlank
              => (result' = Append(result, <<>>) /\ level' = level)
           /\ (IsSelfClosingLine(NextLine) \/ IsPlainTextLine(NextLine))
              => /\ result' = Append(result,
                                Repeat(IndentUnit(options), level) \o NextLine)
                 /\ level' = level ]_vars

\* C24 witness: inside an open element a whitespace-only line was emitted
\* empty and a plain-text line one unit deep, and the depth is still 1
BlankAndTextInsideElement ==
    /\ pc = "line"
    /\ lineNo = 3
    /\ IsOpenTagLine(LineAt(1))
    /\ lines[2] # <<>> /\ result[2] = <<>>
    /\ IsPlainTextLine(LineAt(3))
    /\ EmittedAt(3, 1)
    /\ level = 1

\* a line that opens a block-scoped custom tag and closes it again
IsPairedLine(t) ==
    \E name \in BlockScopedNames :
        /\ StartsWithAt(t, 1, <<"<">> \o name)
        /\ t[Len(name) + 2] \in Whitespace \cup {">"}
        /\ EndsWith(t, <<"<","/">> \o name \o <<">">>)
        /\ Len(t) > 2 * Len(name) + 5

\* C28: a line that holds the opening form and the matching closing form of
\* a block-scoped custom tag leaves the depth as it is.
PairedLineKeepsDepth ==
    [][ (InLoop /\ IsPairedLine(NextLine)) => level' = level ]_vars

\* the name of the closing tag a line is
ClosingName(t) == SubSeq(t, 3, Len(t) - 1)

\* a line that is one closing tag and nothing else
IsCloseTagLine(t) ==
    /\ Len(t) >= 4
    /\ t[1] = "<" /\ t[2] = "/"
    /\ t[3] \in Lower \cup Upper
    /\ t[Len(t)] = ">"
    /\ CountChar(t, "<") = 1
    /\ CountChar(t, ">") = 1
    /\ \A i \in 3..(Len(t) - 1) : t[i] \notin Whitespace

\* the pairs of an opening line and the line that closes it, for lines that
\* hold one tag each and are well nested; the pair of zeros if they are not:
\* k is the line looked at, and open the lines open before it
RECURSIVE TagPairs(_, _, _)
TagPairs(k, open, acc) ==
    IF k > Len(lines) THEN (IF open = <<>> THEN acc ELSE {<<0, 0>>})
    ELSE IF IsOpenTagLine(LineAt(k)) THEN TagPairs(k + 1, <<k>> \o open, acc)
    ELSE IF /\ IsCloseTagLine(LineAt(k))
            /\ open # <<>>
            /\ TagName(LineAt(open[1])) = ClosingName(LineAt(k))
         THEN TagPairs(k + 1, Tail(open), acc \cup {<<open[1], k>>})
    ELSE {<<0, 0>>}

\* C29: the line '</N>' decreases the depth only if the line '<N>', with or
\* without attributes, increases it; and for well-nested lines of one tag
\* each, every closing line is emitted at the indentation of its opening line
\* and the depth is 0 after the last line.
SymmetricClassification ==
    /\ [][ (InLoop /\ IsCloseTagLine(NextLine) /\ level' < level)
           => /\ NextLevel(level', <<"<">> \o ClosingName(NextLine) \o <<">">>) = level' + 1
              /\ NextLevel(level', <<"<">> \o ClosingName(NextLine) \o <<" ","a",">">>)
                   = level' + 1 ]_vars
    /\ []((pc = "line" /\ lineNo = Len(lines) /\ <<0, 0>> \notin TagPairs(1, <<>>, {}))
          => /\ level = 0
             /\ \A pr \in TagPairs(1, <<>>, {}) :
                   Len(result[pr[2]]) - Len(LineAt(pr[2]))
                     = Len(result[pr[1]]) - Len(LineAt(pr[1])))

\* C25: updateDiagnostics does not call runDiagnostics; at most one timeout is set at
\* any time, for the document of the latest call and due DebounceDelay after
\* it; runDiagnostics runs DebounceDelay after the latest call, once, on the
\* document of that call, and a timeout is set until it has run.
Debounce ==
    /\ [](/\ Cardinality(timers) <= 1
          /\ \A t \in timers : /\ t.document = lastDocument
                               /\ t.left = DebounceDelay - sinceCall
                               /\ t.handle = debounceTimer
          /\ (lastDocument # NoDocument /\ runsSinceCall = 0) => timers # {}
          /\ runsSinceCall <= 1)
    /\ [][ /\ debounceTimer' # debounceTimer
              => (diagnosticCollection' = diagnosticCollection /\ runsSinceCall' = 0)
           /\ runsSinceCall' > runsSinceCall
              => /\ sinceCall = DebounceDelay
                 /\ runsSinceCall = 0
                 /\ debounceTimer' = debounceTimer
                 /\ diagnosticCollection'
                      = diagnosticCollection \cup {lastDocument} ]_vars

\* C25: a burst of calls for two documents has been checked once, on the
\* document of its last call
BurstChecked ==
    /\ runsSinceCall = 1
    /\ timers = {}
    /\ lastDocument \in diagnosticCollection
    /\ requested # {}
    /\ lastDocument \notin requested

\* C26: once no timeout is set, no open document is left that was passed to
\* updateDiagnostics and has not been checked since.
EveryRequestChecked ==
    timers = {} => requested \cap openDocuments = {}

\* C27: the collection has no entry for a document that is closed.
ClosedKeepNoDiagnostics ==
    diagnosticCollection \subseteq openDocuments
====
